---------------------------- MODULE Spec2Model ----------------------------
(***************************************************************************)
(* Shopify Schema Helper: the tolerant schema parser (schemaParser.ts),     *)
(* the tree provider that owns the parse state, the line map and the path   *)
(* resolver (schemaTreeProvider.ts) and the validator (schemaValidator.ts). *)
(*                                                                          *)
(* Text is a sequence of atoms.  An atom is one punctuation character       *)
(* ("{", "}", "[", "]", ",", ":", the double quote, "%", "-", "@", "/",     *)
(* "\\", ".", a space, a line feed) or a maximal run of word characters     *)
(* ([A-Za-z0-9_]+, e.g. "name", "Test", "10").  Every regular expression    *)
(* and string method of the source is modelled on atoms; none of them       *)
(* looks inside a run of word characters except the case-insensitive        *)
(* keyword match, which Lower models.  Offsets count atoms; only the line   *)
(* of an offset is ever used.  Columns and suggestion texts of issues are   *)
(* not modelled.                                                            *)
(***************************************************************************)
EXTENDS Integers, Sequences, FiniteSets, TLC

Q  == "\""
NL == "\n"
SP == " "
BS == "\\"

(***************************************************************************)
(* String methods on atom sequences.                                        *)
(***************************************************************************)
IsWs(a) == a \in {SP, NL}

Punct == {"{", "}", "[", "]", ",", ":", Q, "%", "-", "@", "/", BS, ".", SP, NL}

IsWord(a) == a \notin Punct

Lower(a) ==
    CASE a \in {"schema", "SCHEMA", "Schema"} -> "schema"
      [] a \in {"endschema", "ENDSCHEMA", "EndSchema"} -> "endschema"
      [] OTHER -> a

StartsWithAt(t, i, p) ==
    /\ i + Len(p) - 1 <= Len(t)
    /\ \A k \in 1..Len(p) : t[i + k - 1] = p[k]

StartsWith(t, p) == StartsWithAt(t, 1, p)

EndsWith(t, p) == Len(p) <= Len(t) /\ StartsWithAt(t, Len(t) - Len(p) + 1, p)

\* String.prototype.indexOf, 1-based; 0 when absent.
IndexOf(t, p) ==
    LET hits == {i \in 1..(Len(t) + 1) : StartsWithAt(t, i, p)}
    IN  IF hits = {} THEN 0 ELSE CHOOSE i \in hits : \A j \in hits : i <= j

Includes(t, p) == IndexOf(t, p) # 0

RECURSIVE TrimStartIdx(_, _)
TrimStartIdx(t, i) ==
    IF i <= Len(t) /\ IsWs(t[i]) THEN TrimStartIdx(t, i + 1) ELSE i

RECURSIVE TrimEndIdx(_, _)
TrimEndIdx(t, j) ==
    IF j >= 1 /\ IsWs(t[j]) THEN TrimEndIdx(t, j - 1) ELSE j

\* String.prototype.trim
Trim(t) == SubSeq(t, TrimStartIdx(t, 1), TrimEndIdx(t, Len(t)))

\* String.prototype.split('\n')
\* The positions of the line feeds of t, and the k-th of them in order; 0 and
\* Len(t) + 1 stand for the two ends of the text.
LineFeeds(t) == {i \in 1..Len(t) : t[i] = NL}

NthLineFeed(t, k) ==
    IF k = 0 THEN 0
    ELSE IF k > Cardinality(LineFeeds(t)) THEN Len(t) + 1
    ELSE CHOOSE i \in LineFeeds(t) : Cardinality({j \in LineFeeds(t) : j < i}) = k - 1

Split(t) ==
    [k \in 1..(Cardinality(LineFeeds(t)) + 1) |->
        SubSeq(t, NthLineFeed(t, k - 1) + 1, NthLineFeed(t, k) - 1)]

\* Array.prototype.join('\n')
RECURSIVE JoinRange(_, _, _)
JoinRange(ls, lo, hi) ==
    IF lo > hi THEN <<>>
    ELSE IF lo = hi THEN ls[lo]
    ELSE JoinRange(ls, lo, (lo + hi) \div 2) \o <<NL>> \o JoinRange(ls, (lo + hi) \div 2 + 1, hi)

Join(ls) == JoinRange(ls, 1, Len(ls))

\* Number of line feeds in the first n atoms: TextDocument.positionAt(n).line
LineOfOffset(t, n) == Cardinality({i \in 1..n : t[i] = NL})

(***************************************************************************)
(* JSON values.  An object is a function o from keys (atom sequences) to    *)
(* values, with its keys in insertion order in k (the order Object.keys     *)
(* gives); a repeated key keeps its place and its last value, as            *)
(* JSON.parse does.                                                         *)
(***************************************************************************)
Undefined == [t |-> "undefined"]
Null      == [t |-> "null"]
JBool(b)  == [t |-> "bool", b |-> b]
JNum(n)   == [t |-> "num", n |-> n]
JStr(s)   == [t |-> "str", s |-> s]
JArr(a)   == [t |-> "arr", a |-> a]
JObj(o, k) == [t |-> "obj", o |-> o, k |-> k]
EmptyObj  == JObj(<<>>, <<>>)

NumAtoms == {"0", "1", "2", "3", "4", "5", "10", "50", "51"}

NumOf(a) ==
    CASE a = "0" -> 0 [] a = "1" -> 1 [] a = "2" -> 2 [] a = "3" -> 3
      [] a = "4" -> 4 [] a = "5" -> 5 [] a = "10" -> 10 [] a = "50" -> 50
      [] a = "51" -> 51

HasProps(v) == v.t = "obj" \/ (v.t = "arr" /\ "o" \in DOMAIN v)

\* Property read v[k]; undefined when absent.
Get(v, k) ==
    IF HasProps(v) /\ <<k>> \in DOMAIN v.o THEN v.o[<<k>>] ELSE Undefined

\* Property write v[k] = x on an object (or on an array, which is an object).
Put(v, k, x) ==
    LET old == IF HasProps(v) THEN v.o ELSE <<>>
        keys == IF HasProps(v) THEN v.k ELSE <<>>
        new == [key \in (DOMAIN old) \cup {<<k>>} |->
                    IF key = <<k>> THEN x ELSE old[key]]
        order == IF <<k>> \in DOMAIN old THEN keys ELSE Append(keys, <<k>>)
    IN  IF v.t = "obj" THEN JObj(new, order)
        ELSE [t |-> "arr", a |-> v.a, o |-> new, k |-> order]

\* ToBoolean
Truthy(v) ==
    CASE v.t \in {"undefined", "null"} -> FALSE
      [] v.t = "bool" -> v.b
      [] v.t = "num" -> v.n # 0
      [] v.t = "str" -> v.s # <<>>
      [] OTHER -> TRUE

(***************************************************************************)
(* JSON.parse.  A failure carries what V8 puts in the message: the          *)
(* unexpected token and its position ("Unexpected token ] in JSON at        *)
(* position 14"), or no position at the end of input ("Unexpected end of    *)
(* JSON input").                                                            *)
(***************************************************************************)
POk(v, i) == [ok |-> TRUE, v |-> v, next |-> i]

PFail(t, i) ==
    IF i > Len(t)
    THEN [ok |-> FALSE, message |-> [name |-> "SyntaxError", token |-> "EOF"]]
    ELSE [ok |-> FALSE,
          message |-> [name |-> "SyntaxError", token |-> t[i], position |-> i - 1]]

RECURSIVE StringEnd(_, _)
\* Index of the quote that closes the string whose content starts at i; 0 when
\* the string is not terminated on its line.
StringEnd(t, i) ==
    IF i > Len(t) \/ t[i] = NL THEN 0
    ELSE IF t[i] = Q THEN i
    ELSE IF t[i] = BS THEN (IF i + 1 <= Len(t) /\ t[i + 1] \in {Q, BS, "/"}
                            THEN StringEnd(t, i + 2) ELSE 0)
    ELSE StringEnd(t, i + 1)

RECURSIVE Unescape(_)
Unescape(s) ==
    IF s = <<>> THEN <<>>
    ELSE IF s[1] = BS /\ Len(s) >= 2 THEN <<s[2]>> \o Unescape(SubSeq(s, 3, Len(s)))
    ELSE <<s[1]>> \o Unescape(Tail(s))

RECURSIVE SkipWs(_, _)
SkipWs(t, i) == IF i <= Len(t) /\ IsWs(t[i]) THEN SkipWs(t, i + 1) ELSE i

\* A string that starts at the quote t[i], given the index e of its closing
\* quote.
StringUpTo(t, i, e) ==
    IF e = 0 THEN PFail(t, Len(t) + 1)
    ELSE POk(JStr(Unescape(SubSeq(t, i + 1, e - 1))), e + 1)

ParseString(t, i) == StringUpTo(t, i, StringEnd(t, i + 1))

\* acc with the member key: x added, or replaced where it stands.
SetMember(acc, key, x) ==
    JObj([m \in (DOMAIN acc.o) \cup {key} |-> IF m = key THEN x ELSE acc.o[m]],
         IF key \in DOMAIN acc.o THEN acc.k ELSE Append(acc.k, key))

RECURSIVE ParseValue(_, _), ValueAt(_, _), ObjectFrom(_, _), ArrayFrom(_, _),
          ParseMembers(_, _, _), MemberAfterKey(_, _, _), MemberColon(_, _, _, _),
          MemberAfterValue(_, _, _, _), MemberNext(_, _, _),
          ParseElements(_, _, _), ElementAfterValue(_, _, _), ElementNext(_, _, _)

\* The value that starts at or after i0, white space skipped.
ParseValue(t, i0) == ValueAt(t, SkipWs(t, i0))

ValueAt(t, i) ==
    IF i > Len(t) THEN PFail(t, i)
    ELSE CASE t[i] = "{" -> ObjectFrom(t, SkipWs(t, i + 1))
           [] t[i] = "[" -> ArrayFrom(t, SkipWs(t, i + 1))
           [] t[i] = Q -> ParseString(t, i)
           [] t[i] \in NumAtoms -> POk(JNum(NumOf(t[i])), i + 1)
           [] t[i] = "true" -> POk(JBool(TRUE), i + 1)
           [] t[i] = "false" -> POk(JBool(FALSE), i + 1)
           [] t[i] = "null" -> POk(Null, i + 1)
           [] OTHER -> PFail(t, i)

ObjectFrom(t, j) ==
    IF j <= Len(t) /\ t[j] = "}" THEN POk(EmptyObj, j + 1) ELSE ParseMembers(t, j, EmptyObj)

ArrayFrom(t, j) ==
    IF j <= Len(t) /\ t[j] = "]" THEN POk(JArr(<<>>), j + 1) ELSE ParseElements(t, j, <<>>)

\* The members of an object from i on: a key, a colon, a value, then a comma
\* and more members or the closing brace.
ParseMembers(t, i, acc) ==
    IF i > Len(t) \/ t[i] # Q THEN PFail(t, i)
    ELSE MemberAfterKey(t, ParseString(t, i), acc)

MemberAfterKey(t, k, acc) ==
    IF ~k.ok THEN k ELSE MemberColon(t, k.v.s, SkipWs(t, k.next), acc)

MemberColon(t, key, c, acc) ==
    IF c > Len(t) \/ t[c] # ":" THEN PFail(t, c)
    ELSE MemberAfterValue(t, key, ParseValue(t, c + 1), acc)

MemberAfterValue(t, key, v, acc) ==
    IF ~v.ok THEN v ELSE MemberNext(t, SkipWs(t, v.next), SetMember(acc, key, v.v))

MemberNext(t, n, acc) ==
    IF n > Len(t) THEN PFail(t, n)
    ELSE IF t[n] = "," THEN ParseMembers(t, SkipWs(t, n + 1), acc)
    ELSE IF t[n] = "}" THEN POk(acc, n + 1)
    ELSE PFail(t, n)

\* The elements of an array from i on.
ParseElements(t, i, acc) == ElementAfterValue(t, ParseValue(t, i), acc)

ElementAfterValue(t, v, acc) ==
    IF ~v.ok THEN v ELSE ElementNext(t, SkipWs(t, v.next), Append(acc, v.v))

ElementNext(t, n, acc) ==
    IF n > Len(t) THEN PFail(t, n)
    ELSE IF t[n] = "," THEN ParseElements(t, n + 1, acc)
    ELSE IF t[n] = "]" THEN POk(JArr(acc), n + 1)
    ELSE PFail(t, n)

\* After the value: anything but white space is an unexpected token.
WholeText(t, r) ==
    IF ~r.ok THEN r
    ELSE IF SkipWs(t, r.next) <= Len(t) THEN PFail(t, SkipWs(t, r.next))
    ELSE [ok |-> TRUE, v |-> r.v]

\* JSON.parse(text): [ok |-> TRUE, v |-> value] or [ok |-> FALSE, message |-> m]
JSONparse(t) == WholeText(t, ParseValue(t, 1))

(***************************************************************************)
(* SchemaParser (src/src/schemaParser.ts).                                  *)
(***************************************************************************)
TypeError == [name |-> "TypeError"]

\* if (!schema.name) schema.name = 'Unnamed Section'
DefaultName(schema) ==
    IF ~Truthy(Get(schema, "name"))
    THEN Put(schema, "name", JStr(<<"Unnamed", SP, "Section">>))
    ELSE schema

\* schema[key] = schema[key] || []
DefaultArray(schema, key) ==
    Put(schema, key, IF Truthy(Get(schema, key)) THEN Get(schema, key) ELSE JArr(<<>>))

\* validateAndCleanSchema.  The module is compiled in strict mode, so reading
\* .name of null and creating a property on a primitive both throw.
validateAndCleanSchema(schema) ==
    IF schema.t \notin {"obj", "arr"} THEN [ok |-> FALSE, message |-> TypeError]
    ELSE [ok |-> TRUE,
          v |-> DefaultArray(DefaultArray(DefaultArray(DefaultName(schema), "settings"),
                                          "blocks"),
                             "presets")]

\* The rest of a try block of parseJsonWithRecovery once JSON.parse has
\* returned or thrown r.
CleanParsed(r) == IF r.ok THEN validateAndCleanSchema(r.v) ELSE r

\* The body of either try block of parseJsonWithRecovery:
\* JSON.parse(workingContent), then validateAndCleanSchema(schema).
ParseAndClean(content) == CleanParsed(JSONparse(content))

\* line.replace(/,(\s*)$/, '$1')
RemoveFinalComma(line) ==
    LET e == TrimEndIdx(line, Len(line))
    IN  IF e >= 1 /\ line[e] = ","
        THEN SubSeq(line, 1, e - 1) \o SubSeq(line, e + 1, Len(line))
        ELSE line

\* lines[i].replace(/(\s*)$/, ',$1')
InsertFinalComma(line) ==
    LET e == TrimEndIdx(line, Len(line))
    IN  SubSeq(line, 1, e) \o <<",">> \o SubSeq(line, e + 1, Len(line))

\* The concatenation of parts[lo..hi], in order.
RECURSIVE Flatten(_, _, _)
Flatten(parts, lo, hi) ==
    IF lo > hi THEN <<>>
    ELSE IF lo = hi THEN parts[lo]
    ELSE Flatten(parts, lo, (lo + hi) \div 2) \o Flatten(parts, (lo + hi) \div 2 + 1, hi)

\* The while loop of fixTrailingCommas: the first index from n on of a line
\* that is not blank, Len(lines) + 1 when there is none.
NextNonEmpty(lines, n) ==
    LET rest == {j \in n..Len(lines) : Trim(lines[j]) # <<>>}
    IN  IF rest = {} THEN Len(lines) + 1 ELSE CHOOSE j \in rest : \A l \in rest : j <= l

TrailingCommaIssue(n) ==
    [type |-> "trailing-comma", line |-> n, fixed |-> TRUE,
     message |-> [text |-> "Trailing comma before closing bracket/brace"]]

\* The condition under which iteration i of fixTrailingCommas rewrites its
\* line.  An iteration reads lines[i] and the lines after it and writes only
\* lines[i], so every iteration sees the lines as they were split.
TrailingHit(lines, i) ==
    LET trimmed == Trim(lines[i])
        n == NextNonEmpty(lines, i + 1)
    IN  /\ \/ EndsWith(trimmed, <<",", "]">>)
           \/ EndsWith(trimmed, <<",", "}">>)
           \/ EndsWith(trimmed, <<",">>)
        /\ n <= Len(lines)
        /\ \/ StartsWith(Trim(lines[n]), <<"]">>)
           \/ StartsWith(Trim(lines[n]), <<"}">>)

TrailingLoop(lines, issues) ==
    [lines |-> [i \in 1..Len(lines) |->
                   IF TrailingHit(lines, i) THEN RemoveFinalComma(lines[i]) ELSE lines[i]],
     issues |-> issues \o Flatten([i \in 1..Len(lines) |->
                                      IF TrailingHit(lines, i)
                                      THEN <<TrailingCommaIssue(i)>> ELSE <<>>],
                                  1, Len(lines)),
     modified |-> \E i \in 1..Len(lines) : TrailingHit(lines, i)]

\* return modified ? lines.join('\n') : content
Rejoined(content, r) ==
    [content |-> IF r.modified THEN Join(r.lines) ELSE content, issues |-> r.issues]

fixTrailingCommas(content, issues) == Rejoined(content, TrailingLoop(Split(content), issues))

MissingCommaIssue(n) ==
    [type |-> "missing-comma", line |-> n, fixed |-> TRUE,
     message |-> [text |-> "Missing comma between JSON elements"]]

\* fixMissingCommas without the test nextLine.match(/^\w/).
MissingHit_NoWord(lines, i) ==
    /\ \/ EndsWith(Trim(lines[i]), <<"}">>)
       \/ EndsWith(Trim(lines[i]), <<"]">>)
       \/ EndsWith(Trim(lines[i]), <<Q>>)
    /\ \/ StartsWith(Trim(lines[i + 1]), <<"{">>)
       \/ StartsWith(Trim(lines[i + 1]), <<Q>>)

\* The condition under which iteration i of fixMissingCommas adds a comma to
\* its line; it reads lines[i] and lines[i + 1] and writes only lines[i].
MissingHit(lines, i) ==
    LET currentLine == Trim(lines[i])
        nextLine == Trim(lines[i + 1])
    IN  /\ \/ EndsWith(currentLine, <<"}">>)
           \/ EndsWith(currentLine, <<"]">>)
           \/ EndsWith(currentLine, <<Q>>)
        /\ \/ StartsWith(nextLine, <<"{">>)
           \/ StartsWith(nextLine, <<Q>>)
           \/ (nextLine # <<>> /\ IsWord(nextLine[1]))
        /\ ~(StartsWith(nextLine, <<"}">>) \/ StartsWith(nextLine, <<"]">>))
        /\ ~EndsWith(currentLine, <<",">>)

MissingLoop(lines, issues) ==
    [lines |-> [i \in 1..Len(lines) |->
                   IF i < Len(lines) /\ MissingHit(lines, i)
                   THEN InsertFinalComma(lines[i]) ELSE lines[i]],
     issues |-> issues \o Flatten([i \in 1..(Len(lines) - 1) |->
                                      IF MissingHit(lines, i)
                                      THEN <<MissingCommaIssue(i)>> ELSE <<>>],
                                  1, Len(lines) - 1),
     modified |-> \E i \in 1..(Len(lines) - 1) : MissingHit(lines, i)]

fixMissingCommas(content, issues) == Rejoined(content, MissingLoop(Split(content), issues))

\* line.match(/:\s*"([^"]*)"/g): the matches from position i on, left to right,
\* each from its colon to the first quote after the opening one.
RECURSIVE StringValueMatches(_, _)
StringValueMatches(line, i) ==
    LET starts == {j \in i..Len(line) :
                     /\ line[j] = ":"
                     /\ LET o == SkipWs(line, j + 1)
                        IN  /\ o <= Len(line)
                            /\ line[o] = Q
                            /\ \E c \in (o + 1)..Len(line) : line[c] = Q}
    IN  IF starts = {} THEN <<>>
        ELSE LET at == CHOOSE j \in starts : \A l \in starts : j <= l
                 o == SkipWs(line, at + 1)
                 c == CHOOSE c \in (o + 1)..Len(line) :
                         line[c] = Q /\ \A l \in (o + 1)..(c - 1) : line[l] # Q
             IN  <<[at |-> at, open |-> o, close |-> c]>> \o StringValueMatches(line, c + 1)

UnescapedQuoteIssue(n) ==
    [type |-> "unescaped-quote", line |-> n, fixed |-> FALSE,
     message |-> [text |-> "Possible unescaped quote in string"]]

\* The inner for loop: the issues of the matches ms[k..] of line n.
RECURSIVE QuoteMatchLoop(_, _, _, _)
QuoteMatchLoop(line, n, ms, k) ==
    IF k > Len(ms) THEN <<>>
    ELSE LET match == SubSeq(line, ms[k].at, ms[k].close)
             first == IndexOf(match, <<Q>>)
             last == CHOOSE j \in 1..Len(match) :
                        match[j] = Q /\ \A l \in (j + 1)..Len(match) : match[l] # Q
             stringContent == SubSeq(match, first + 1, last - 1)
             flag == /\ Includes(stringContent, <<Q>>)
                     /\ ~Includes(stringContent, <<BS, Q>>)
                     /\ ~Includes(stringContent, <<"{", "{">>)
                     /\ ~Includes(stringContent, <<"}", "}">>)
         IN  (IF flag THEN <<UnescapedQuoteIssue(n)>> ELSE <<>>)
                 \o QuoteMatchLoop(line, n, ms, k + 1)

\* The outer for loop: the issues each line pushes, in line order.
QuoteLoop(lines) ==
    Flatten([i \in 1..Len(lines) |->
                IF ~Includes(lines[i], <<":">>) \/ ~Includes(lines[i], <<Q>>)
                THEN <<>>
                ELSE QuoteMatchLoop(lines[i], i, StringValueMatches(lines[i], 1), 1)],
            1, Len(lines))

\* Detection only: the content is returned as it came.
fixUnescapedQuotes(content, issues) ==
    [content |-> content, issues |-> issues \o QuoteLoop(Split(content))]

\* extractLineFromError: "at position N" -> lines before N, else line 1.
extractLineFromError(errorMessage, content) ==
    IF "position" \in DOMAIN errorMessage
    THEN Len(Split(SubSeq(content, 1, errorMessage.position)))
    ELSE 1

OtherIssue(n, msg) ==
    [type |-> "other", line |-> n, fixed |-> FALSE, message |-> msg]

\* The catch block of the second try without its issues.push: the failure is
\* returned but not logged as an issue.
FailureResult_Unlogged(c, finalError) ==
    [schema |-> Null, issues |-> c.issues, originalError |-> finalError]

\* The catch block of the second try: finalError and the issue it adds.
FailureResult(c, finalError) ==
    [schema |-> Null,
     issues |-> Append(c.issues,
                       OtherIssue(extractLineFromError(finalError, c.content), finalError)),
     originalError |-> finalError]

\* The second try, on the working content c.content with the issues c.issues.
SecondParse(originalError, c, second) ==
    IF second.ok
    THEN [schema |-> second.v, issues |-> c.issues, originalError |-> originalError]
    ELSE FailureResult(c, second.message)

\* The three repairs in order, each on the working content and the issue list
\* the one before left.
AfterTrailing(a) == fixMissingCommas(a.content, a.issues)

AfterMissing(b) == fixUnescapedQuotes(b.content, b.issues)

Repaired(content) == AfterMissing(AfterTrailing(fixTrailingCommas(content, <<>>)))

Recover(originalError, c) == SecondParse(originalError, c, ParseAndClean(c.content))

FirstParse(content, first) ==
    IF first.ok
    THEN [schema |-> first.v, issues |-> <<>>, originalError |-> Null]
    ELSE Recover(first.message, Repaired(content))

parseJsonWithRecovery(content) == FirstParse(content, ParseAndClean(content))

(***************************************************************************)
(* The schema block markers.  hy = FALSE is parseDocument's expression      *)
(*   /{%\s*schema\s*%}([\s\S]*?){%\s*endschema\s*%}/i                       *)
(* and hy = TRUE the tree provider's                                        *)
(*   /\{%-?\s*schema\s*-?%\}([\s\S]*?)\{%-?\s*endschema\s*-?%\}/i           *)
(***************************************************************************)
OptHyphen(t, i, hy) == IF hy /\ i <= Len(t) /\ t[i] = "-" THEN i + 1 ELSE i

\* The index after a marker `{% kw %}` that starts at i; 0 when none starts there.
MarkerAt(t, i, kw, hy) ==
    IF ~StartsWithAt(t, i, <<"{", "%">>) THEN 0
    ELSE LET a == SkipWs(t, OptHyphen(t, i + 2, hy))
         IN  IF a > Len(t) \/ Lower(t[a]) # kw THEN 0
             ELSE LET b == OptHyphen(t, SkipWs(t, a + 1), hy)
                  IN  IF StartsWithAt(t, b, <<"%", "}">>) THEN b + 2 ELSE 0

\* The match whose opening marker starts at s and ends before e, up to the
\* closing marker that starts at c.
BlockBetween(text, hy, s, e, c) ==
    [found |-> TRUE,
     whole |-> SubSeq(text, s, MarkerAt(text, c, "endschema", hy) - 1),
     inner |-> SubSeq(text, e, c - 1)]

FirstClose(text, hy, e) ==
    CHOOSE c \in e..Len(text) :
        /\ MarkerAt(text, c, "endschema", hy) # 0
        /\ \A j \in e..(c - 1) : MarkerAt(text, j, "endschema", hy) = 0

BlockAfter(text, hy, s, e) == BlockBetween(text, hy, s, e, FirstClose(text, hy, e))

BlockFrom(text, hy, s) == BlockAfter(text, hy, s, MarkerAt(text, s, "schema", hy))

\* String.prototype.match with the block expression: the leftmost opening
\* marker that has a closing marker after it, and the first such closing marker.
MatchSchemaBlock(text, hy) ==
    LET opens == {i \in 1..Len(text) :
                    /\ MarkerAt(text, i, "schema", hy) # 0
                    /\ \E c \in MarkerAt(text, i, "schema", hy)..Len(text) :
                          MarkerAt(text, c, "endschema", hy) # 0}
    IN  IF opens = {} THEN [found |-> FALSE]
        ELSE BlockFrom(text, hy, CHOOSE i \in opens : \A j \in opens : i <= j)

\* text.indexOf(schemaMatch[0]) + schemaMatch[0].indexOf(schemaMatch[1]), 0-based
SchemaStartIndex(text, m) == (IndexOf(text, m.whole) - 1) + (IndexOf(m.whole, m.inner) - 1)

\* filePath.replace(/\\/g, '/')
NormalizePath(p) == [i \in 1..Len(p) |-> IF p[i] = BS THEN "/" ELSE p[i]]

RECURSIVE SplitPath(_, _, _)
SplitPath(t, i, cur) ==
    IF i > Len(t) THEN <<cur>>
    ELSE IF t[i] = "/" THEN <<cur>> \o SplitPath(t, i + 1, <<>>)
    ELSE SplitPath(t, i + 1, Append(cur, t[i]))

detectFileType(filePath) ==
    LET normalizedPath == NormalizePath(filePath)
        pathParts == SplitPath(normalizedPath, 1, <<>>)
        parentFolder == IF Len(pathParts) >= 2 THEN pathParts[Len(pathParts) - 1]
                        ELSE <<"undefined">>
    IN  IF Includes(normalizedPath, <<"/", "blocks", "/">>) THEN "block"
        ELSE IF Includes(normalizedPath, <<"/", "sections", "/">>) THEN "section"
        ELSE IF parentFolder = <<"blocks">> THEN "block"
        ELSE IF parentFolder = <<"sections">> THEN "section"
        ELSE "section"

\* result.schema._jsonIssues = result.issues stores a reference to the issue
\* array of the result, not a copy.
IssuesRef == [t |-> "ref", to |-> "issues"]

\* An exception that leaves the function instead of a return value.
Thrown(message) == [thrown |-> message]

\* The statements of parseDocument after parseJsonWithRecovery.  They are in
\* no try block: a property write on a primitive would leave as a TypeError.
Annotate(document, result) ==
    IF ~Truthy(result.schema) THEN result
    ELSE IF result.schema.t \notin {"obj", "arr"} THEN Thrown(TypeError)
    ELSE [result EXCEPT !.schema =
            validateAndCleanSchema(
                Put(Put(Put(result.schema, "_filePath", JStr(document.fileName)),
                        "_fileType", JStr(<<detectFileType(document.fileName)>>)),
                    "_jsonIssues", IssuesRef)).v]

\* parseDocument answering a missing block with no error message.
ParseBlock_NoError(document, schemaMatch) ==
    IF ~schemaMatch.found
    THEN [schema |-> Null, issues |-> <<>>, originalError |-> Null]
    ELSE Annotate(document, parseJsonWithRecovery(Trim(schemaMatch.inner)))

ParseBlock(document, schemaMatch) ==
    IF ~schemaMatch.found
    THEN [schema |-> Null, issues |-> <<>>,
          originalError |-> [text |-> "No schema block found"]]
    ELSE Annotate(document, parseJsonWithRecovery(Trim(schemaMatch.inner)))

parseDocument(document) == ParseBlock(document, MatchSchemaBlock(document.text, FALSE))

(***************************************************************************)
(* SchemaValidator (schemaValidator.ts, src/unnamed/part_000).              *)
(* A finding is [type, message, arg, path]; path <<>> stands for no path.   *)
(* The validator is typed by the Setting, Block and Preset interfaces: the  *)
(* documents of the model keep collections arrays of objects and names,     *)
(* ids and types strings.                                                   *)
(***************************************************************************)
IdxAtom(n) ==
    CASE n = 0 -> "0" [] n = 1 -> "1" [] n = 2 -> "2" [] n = 3 -> "3"
      [] n = 4 -> "4" [] n = 5 -> "5"

IndexPath(root, index) == <<root, "[", IdxAtom(index), "]">>

VError(msg, arg, path) == [type |-> "error", message |-> msg, arg |-> arg, path |-> path]

VWarning(msg, arg, path) == [type |-> "warning", message |-> msg, arg |-> arg, path |-> path]

NoFindings == <<>>

Both(a, b) == a \o b

ErrIf(c, msg, arg, path) ==
    IF c THEN <<VError(msg, arg, path)>> ELSE <<>>

WarnIf(c, msg, arg, path) ==
    IF c THEN <<VWarning(msg, arg, path)>> ELSE <<>>

IsStr(v, w) == v = JStr(<<w>>)

\* Words of the model that fail /^[a-z][a-z0-9_]*$/.
UpperWords == {"Test", "T", "Title", "Bad", "Hero", "Main", "Default", "Unnamed", "Section"}

\* /^[a-z][a-z0-9_]*$/.test(v)
IsSnakeCase(v) ==
    /\ v.t = "str"
    /\ Len(v.s) = 1
    /\ IsWord(v.s[1])
    /\ v.s[1] \notin UpperWords \cup NumAtoms

\* ToNumber of a value read from the schema gives a number for these; it
\* gives NaN for undefined, for a string that is no number, and for objects
\* and arrays (whose string form is no number in any document of the model).
IsNumeric(v) ==
    \/ v.t \in {"num", "null", "bool"}
    \/ v.t = "str" /\ (v.s = <<>> \/ (Len(v.s) = 1 /\ v.s[1] \in NumAtoms))

ToNumber(v) ==
    CASE v.t = "num" -> v.n
      [] v.t = "bool" -> (IF v.b THEN 1 ELSE 0)
      [] v.t = "str" /\ v.s # <<>> -> NumOf(v.s[1])
      [] OTHER -> 0

\* The place of a string of digits in the order of strings.
StringRank(a) ==
    CASE a = "0" -> 0 [] a = "1" -> 1 [] a = "10" -> 2 [] a = "2" -> 3 [] a = "3" -> 4
      [] a = "4" -> 5 [] a = "5" -> 6 [] a = "50" -> 7 [] a = "51" -> 8

BothDigits(a, b) ==
    /\ a.t = "str" /\ Len(a.s) = 1 /\ a.s[1] \in NumAtoms
    /\ b.t = "str" /\ Len(b.s) = 1 /\ b.s[1] \in NumAtoms

\* a < b and a <= b: two strings are compared as strings (decided here for
\* strings of digits and for equal strings), anything else as numbers, and a
\* comparison with NaN is false.
NumLess(a, b) ==
    IF a.t = "str" /\ b.t = "str"
    THEN BothDigits(a, b) /\ StringRank(a.s[1]) < StringRank(b.s[1])
    ELSE IsNumeric(a) /\ IsNumeric(b) /\ ToNumber(a) < ToNumber(b)

\* a <= b read as a < b.
NumLeq_Strict(a, b) == NumLess(a, b)

NumLeq(a, b) ==
    IF a.t = "str" /\ b.t = "str"
    THEN a = b \/ (BothDigits(a, b) /\ StringRank(a.s[1]) < StringRank(b.s[1]))
    ELSE IsNumeric(a) /\ IsNumeric(b) /\ ToNumber(a) <= ToNumber(b)

ArrLen(v) == IF v.t = "arr" THEN Len(v.a) ELSE 0

validateBasicStructure(schema) ==
    LET name == Get(schema, "name")
        tag == Get(schema, "tag")
    IN  Both(WarnIf(~Truthy(name) \/ Trim(name.s) = <<>>,
                    "Section name is empty or missing", Undefined, <<>>),
        Both(WarnIf(Truthy(name) /\ Len(name.s) > 50,
                    "Section name is very long (over 50 characters)", Undefined, <<>>),
             WarnIf(Truthy(tag) /\ ~IsStr(tag, "section"),
                    "Tag is unusual for sections", tag, <<>>)))

validTypes ==
    {"text", "textarea", "number", "range", "checkbox", "select", "radio",
     "article", "blog", "collection", "collection_list", "color", "color_background",
     "color_scheme", "color_scheme_group", "font_picker", "html", "image_picker",
     "inline_richtext", "link_list", "liquid", "metaobject", "metaobject_list",
     "page", "product", "product_list", "richtext", "text_alignment", "url",
     "video", "video_url", "header", "paragraph"}

\* The number of non-overlapping occurrences of the pair <<c, c>>: /{{/g
RECURSIVE CountPairs(_, _, _)
CountPairs(s, i, c) ==
    IF i + 1 > Len(s) THEN 0
    ELSE IF s[i] = c /\ s[i + 1] = c THEN 1 + CountPairs(s, i + 2, c)
    ELSE CountPairs(s, i + 1, c)

validateVisibleIf(visibleIf, path) ==
    LET p == path \o <<".", "visible_if">>
        v == visibleIf.s
    IN  Both(WarnIf(~Includes(v, <<"{", "{">>) \/ ~Includes(v, <<"}", "}">>),
                    "visible_if should contain Liquid code wrapped in {{ }}", Undefined, p),
        Both(WarnIf(~(Includes(v, <<"section", ".", "settings", ".">>)
                        \/ Includes(v, <<"block", ".", "settings", ".">>)),
                    "visible_if should reference settings using section.settings.* or block.settings.*",
                    Undefined, p),
             ErrIf(CountPairs(v, 1, "{") # CountPairs(v, 1, "}"),
                   "Unbalanced Liquid braces in visible_if", Undefined, p)))

RECURSIVE ProviderErrors(_, _, _)
ProviderErrors(accept, i, path) ==
    IF i > Len(accept) THEN <<>>
    ELSE (IF IsStr(accept[i], "youtube") \/ IsStr(accept[i], "vimeo") THEN <<>>
          ELSE <<VError("Invalid video provider", accept[i], path)>>)
         \o ProviderErrors(accept, i + 1, path)

validateSettingType(setting, path) ==
    LET type == Get(setting, "type")
        min == Get(setting, "min")
        max == Get(setting, "max")
        step == Get(setting, "step")
        options == Get(setting, "options")
        content == Get(setting, "content")
        default == Get(setting, "default")
        limit == Get(setting, "limit")
        accept == Get(setting, "accept")
        visible == Get(setting, "visible_if")
        known == type.t = "str" /\ Len(type.s) = 1 /\ type.s[1] \in validTypes
        unknown == ErrIf(~known, "Unknown setting type", type, path)
        specific ==
            CASE IsStr(type, "range") ->
                    Both(IF min = Undefined \/ max = Undefined
                         THEN ErrIf(TRUE, "Range settings require both min and max properties",
                                    Undefined, path)
                         ELSE ErrIf(NumLeq(max, min),
                                    "Range min value must be less than max value", Undefined, path),
                         ErrIf(step # Undefined /\ NumLeq(step, JNum(0)),
                               "Range step must be greater than 0", Undefined, path))
              [] IsStr(type, "select") \/ IsStr(type, "radio") ->
                    ErrIf(~Truthy(options) \/ (options.t = "arr" /\ Len(options.a) = 0),
                          "settings require options array", type, path)
              [] IsStr(type, "header") ->
                    WarnIf(~Truthy(content), "Header settings should have content property",
                           Undefined, path)
              [] IsStr(type, "paragraph") ->
                    WarnIf(~Truthy(content), "Paragraph settings should have content property",
                           Undefined, path)
              [] IsStr(type, "text_alignment") ->
                    ErrIf(Truthy(default) /\ ~(IsStr(default, "left") \/ IsStr(default, "center")
                                                \/ IsStr(default, "right")),
                          "text_alignment default must be left, center, or right", Undefined, path)
              [] IsStr(type, "metaobject") ->
                    ErrIf(~Truthy(Get(setting, "metaobject_type")),
                          "metaobject settings require metaobject_type property", Undefined, path)
              [] IsStr(type, "collection_list") \/ IsStr(type, "product_list") ->
                    ErrIf(limit # Undefined /\ (NumLess(limit, JNum(1)) \/ NumLess(JNum(50), limit)),
                          "limit must be between 1 and 50", type, path)
              [] IsStr(type, "video_url") ->
                    IF Truthy(accept) /\ accept.t = "arr"
                    THEN ProviderErrors(accept.a, 1, path)
                    ELSE ErrIf(Truthy(accept), "video_url accept property must be an array",
                               Undefined, path)
              [] OTHER -> NoFindings
    IN  Both(unknown,
        Both(specific,
             IF Truthy(visible) THEN validateVisibleIf(visible, path) ELSE NoFindings))

\* Set.prototype.has: primitives are found by value, an object or an array
\* only by identity, which no two values read from the JSON text share.
SetHas(set, v) == v.t \notin {"obj", "arr"} /\ v \in set

\* The body of the forEach callback of validateSettings for one setting;
\* settingIds is the Set of identifiers seen so far.
ValidateOneSetting(setting, index, settingIds) ==
    LET path == IndexPath("settings", index)
        type == Get(setting, "type")
        id == Get(setting, "id")
        label == Get(setting, "label")
        content == Get(setting, "content")
        isHeaderType == IsStr(type, "header") \/ IsStr(type, "paragraph")
    IN  Both(ErrIf(~Truthy(type), "Setting type is required", Undefined, path),
        Both(ErrIf(~Truthy(id) /\ ~isHeaderType, "Setting id is required", Undefined, path),
        Both(WarnIf(~Truthy(label) /\ ~isHeaderType, "Setting label is missing", Undefined, path),
        Both(WarnIf(isHeaderType /\ ~Truthy(content),
                    "setting should have content property", type, path),
        Both(ErrIf(Truthy(id) /\ ~isHeaderType /\ SetHas(settingIds, id),
                   "Duplicate setting ID", id, path),
        Both(WarnIf(Truthy(id) /\ ~isHeaderType /\ ~IsSnakeCase(id),
                    "Setting ID should use lowercase letters, numbers, and underscores only",
                    id, path),
        Both(WarnIf(isHeaderType /\ Truthy(id),
                    "settings should not have an ID property", type, path),
        Both(WarnIf(isHeaderType /\ Truthy(label),
                    "settings should not have a label property", type, path),
             validateSettingType(setting, path)))))))))

\* validateSettings with a Set that never receives an identifier.
RECURSIVE SettingsLoop_NoAdd(_, _, _)
SettingsLoop_NoAdd(settings, i, settingIds) ==
    IF i > Len(settings) THEN NoFindings
    ELSE Both(ValidateOneSetting(settings[i], i - 1, settingIds),
              SettingsLoop_NoAdd(settings, i + 1, settingIds))

RECURSIVE SettingsLoop(_, _, _)
SettingsLoop(settings, i, settingIds) ==
    IF i > Len(settings) THEN NoFindings
    ELSE LET setting == settings[i]
             type == Get(setting, "type")
             id == Get(setting, "id")
             isHeaderType == IsStr(type, "header") \/ IsStr(type, "paragraph")
             ids2 == IF Truthy(id) /\ ~isHeaderType THEN settingIds \cup {id} ELSE settingIds
         IN  Both(ValidateOneSetting(setting, i - 1, settingIds),
                  SettingsLoop(settings, i + 1, ids2))

validateSettings(settings) == SettingsLoop(settings, 1, {})

\* The exemption read as covering '@app' only.
IsSpecialBlock_AppOnly(block) == Get(block, "type") = JStr(<<"@", "app">>)

IsSpecialBlock(block) ==
    Get(block, "type") \in {JStr(<<"@", "app">>), JStr(<<"@", "theme">>)}

\* The body of the forEach callback of validateBlocks for one block.
ValidateOneBlock(block, index, blockTypes) ==
    LET path == IndexPath("blocks", index)
        type == Get(block, "type")
        name == Get(block, "name")
        settings == Get(block, "settings")
        isSpecialBlock == IsSpecialBlock(block)
    IN  Both(ErrIf(~Truthy(type), "Block type is required", Undefined, path),
        Both(ErrIf(~Truthy(name) /\ ~isSpecialBlock, "Block name is required", Undefined, path),
        Both(WarnIf(Truthy(name) /\ isSpecialBlock,
                    "Block type should not have a name property", type, path),
        Both(WarnIf(Truthy(type) /\ type \in blockTypes, "Duplicate block type", type, path),
        Both(WarnIf(Truthy(type) /\ ~isSpecialBlock /\ ~IsSnakeCase(type),
                    "Block type should use lowercase letters, numbers, and underscores only",
                    type, path),
        Both(WarnIf(Truthy(type) /\ isSpecialBlock /\ Truthy(settings) /\ ArrLen(settings) > 0,
                    "Block type should not have settings", type, path),
             IF Truthy(settings) /\ ~isSpecialBlock
             THEN validateSettings(settings.a) ELSE NoFindings))))))

RECURSIVE BlocksLoop(_, _, _)
BlocksLoop(blocks, i, blockTypes) ==
    IF i > Len(blocks) THEN NoFindings
    ELSE LET type == Get(blocks[i], "type")
         IN  Both(ValidateOneBlock(blocks[i], i - 1, blockTypes),
                  BlocksLoop(blocks, i + 1,
                             IF Truthy(type) THEN blockTypes \cup {type} ELSE blockTypes))

validateBlocks(blocks) == BlocksLoop(blocks, 1, {})

RECURSIVE PresetSettingWarnings(_, _, _, _)
PresetSettingWarnings(keys, i, validSettingIds, path) ==
    IF i > Len(keys) THEN <<>>
    ELSE (IF JStr(keys[i]) \in validSettingIds THEN <<>>
          ELSE <<VWarning("Preset references unknown setting ID", JStr(keys[i]),
                          path \o <<".", "settings", ".">> \o keys[i])>>)
         \o PresetSettingWarnings(keys, i + 1, validSettingIds, path)

\* The strict branch taken whatever blocks the schema has.
RECURSIVE PresetBlockWarnings_Strict(_, _, _, _, _)
PresetBlockWarnings_Strict(pblocks, j, validBlockTypes, acceptsAnyBlocks, path) ==
    IF j > Len(pblocks) THEN <<>>
    ELSE (IF Get(pblocks[j], "type") \notin validBlockTypes
          THEN <<VWarning("Preset block references unknown block type",
                          Get(pblocks[j], "type"),
                          path \o <<".">> \o IndexPath("blocks", j - 1))>>
          ELSE <<>>)
         \o PresetBlockWarnings_Strict(pblocks, j + 1, validBlockTypes, acceptsAnyBlocks, path)

RECURSIVE PresetBlockWarnings(_, _, _, _, _)
PresetBlockWarnings(pblocks, j, validBlockTypes, acceptsAnyBlocks, path) ==
    IF j > Len(pblocks) THEN <<>>
    ELSE (IF ~acceptsAnyBlocks /\ Get(pblocks[j], "type") \notin validBlockTypes
          THEN <<VWarning("Preset block references unknown block type",
                          Get(pblocks[j], "type"),
                          path \o <<".">> \o IndexPath("blocks", j - 1))>>
          ELSE <<>>)
         \o PresetBlockWarnings(pblocks, j + 1, validBlockTypes, acceptsAnyBlocks, path)

\* The body of the forEach callback of validatePresets for one preset.
ValidateOnePreset(schema, preset, index) ==
    LET path == IndexPath("presets", index)
        psettings == Get(preset, "settings")
        pblocks == Get(preset, "blocks")
        settings == Get(schema, "settings")
        blocks == Get(schema, "blocks")
        validSettingIds == {Get(settings.a[n], "id") : n \in 1..Len(settings.a)}
        validBlockTypes == {Get(blocks.a[n], "type") : n \in 1..Len(blocks.a)}
        acceptsAnyBlocks == \E n \in 1..Len(blocks.a) : IsSpecialBlock(blocks.a[n])
    IN  Both(ErrIf(~Truthy(Get(preset, "name")), "Preset name is required", Undefined, path),
        Both(IF Truthy(psettings) /\ Truthy(settings)
             THEN PresetSettingWarnings(psettings.k, 1, validSettingIds, path)
             ELSE NoFindings,
             IF Truthy(pblocks) /\ Truthy(blocks)
             THEN PresetBlockWarnings(pblocks.a, 1, validBlockTypes, acceptsAnyBlocks, path)
             ELSE NoFindings))

RECURSIVE PresetsLoop(_, _)
PresetsLoop(schema, i) ==
    IF i > Len(Get(schema, "presets").a) THEN NoFindings
    ELSE Both(ValidateOnePreset(schema, Get(schema, "presets").a[i], i - 1),
              PresetsLoop(schema, i + 1))

validatePresets(schema) ==
    IF ~Truthy(Get(schema, "presets")) \/ ArrLen(Get(schema, "presets")) = 0
    THEN WarnIf(TRUE, "No presets defined", Undefined, <<>>)
    ELSE PresetsLoop(schema, 1)

validateLimits(schema) ==
    LET min == Get(schema, "min_blocks")
        max == Get(schema, "max_blocks")
        blocks == Get(schema, "blocks")
    IN  Both(ErrIf(min # Undefined /\ max # Undefined /\ NumLess(max, min),
                   "min_blocks cannot be greater than max_blocks", Undefined, <<"limits">>),
        Both(WarnIf((min # Undefined \/ max # Undefined)
                      /\ (~Truthy(blocks) \/ ArrLen(blocks) = 0),
                    "Block limits are set but no blocks are defined", Undefined, <<>>),
             WarnIf(max # Undefined /\ NumLess(JNum(50), max),
                    "Very high max_blocks limit may impact performance", Undefined, <<>>)))

\* What validateSchema throws when it calls a method the value does not
\* have or reads a property of null.
ValidatorTypeError == [name |-> "TypeError", from |-> "validateSchema"]

\* v.forEach is not a function, or an entry whose properties are read is null
EntriesThrow(v) == v.t # "arr" \/ \E n \in 1..Len(v.a) : v.a[n].t = "null"

\* validateBlocks throws: on the blocks themselves, or in validateSettings
\* for the settings of a block that is no reserved block.
BlocksThrow(blocks) ==
    \/ EntriesThrow(blocks)
    \/ \E n \in 1..Len(blocks.a) :
          /\ Truthy(Get(blocks.a[n], "settings"))
          /\ ~IsSpecialBlock(blocks.a[n])
          /\ EntriesThrow(Get(blocks.a[n], "settings"))

\* validatePresets throws: on the presets themselves, or on the block list
\* of a preset.
PresetsThrow(presets) ==
    \/ EntriesThrow(presets)
    \/ \E n \in 1..Len(presets.a) :
          /\ Truthy(Get(presets.a[n], "blocks"))
          /\ EntriesThrow(Get(presets.a[n], "blocks"))

\* validateSchema leaves with a TypeError instead of a result: name.trim is
\* not a function for a truthy name that is no string, and the three
\* collections are walked with forEach.
ValidateThrows(schema) ==
    \/ Truthy(Get(schema, "name")) /\ Get(schema, "name").t # "str"
    \/ Truthy(Get(schema, "settings")) /\ EntriesThrow(Get(schema, "settings"))
    \/ Truthy(Get(schema, "blocks")) /\ BlocksThrow(Get(schema, "blocks"))
    \/ Truthy(Get(schema, "presets")) /\ PresetsThrow(Get(schema, "presets"))

IsError(finding) == finding.type = "error"

IsWarning(finding) == finding.type = "warning"

validateSchema(schema) ==
    LET settings == Get(schema, "settings")
        blocks == Get(schema, "blocks")
        presets == Get(schema, "presets")
        all == Both(validateBasicStructure(schema),
               Both(IF Truthy(settings) THEN validateSettings(settings.a) ELSE NoFindings,
               Both(IF Truthy(blocks) THEN validateBlocks(blocks.a) ELSE NoFindings,
               Both(IF Truthy(presets) THEN validatePresets(schema) ELSE NoFindings,
                    validateLimits(schema)))))
        errors == SelectSeq(all, IsError)
    IN  [isValid |-> Len(errors) = 0, errors |-> errors,
         warnings |-> SelectSeq(all, IsWarning)]

(***************************************************************************)
(* SchemaTreeDataProvider (schemaTreeProvider.ts, the TypeScript source     *)
(* that follows the change log in src/CHANGELOG.md).                        *)
(* The line map is a function from keys (atom sequences such as             *)
(* setting:index:0) to line numbers.  Every recorded line is at least 1, so *)
(* 0 stands for the undefined that Map.get gives for an absent key.         *)
(***************************************************************************)
MapGet(map, key) == IF key \in DOMAIN map THEN map[key] ELSE 0

MapSet(map, key, line) ==
    [k \in (DOMAIN map) \cup {key} |-> IF k = key THEN line ELSE map[k]]

Key2(a, b) == <<a, ":">> \o b

IndexKey(kind, n) == <<kind, ":", "index", ":", IdxAtom(n)>>

\* document.positionAt(schemaContentStart).line for the match m
StartLine(document, m) == LineOfOffset(document.text, SchemaStartIndex(document.text, m))

\* The forEach of convertJsonIssueLineNumbers:
\* issue.line = schemaStartPosition.line + issue.line + 1
ShiftIssues(issues, startLine) ==
    [n \in 1..Len(issues) |-> [issues[n] EXCEPT !.line = startLine + issues[n].line + 1]]

ConvertWith(document, issues, schemaMatch) ==
    IF Len(issues) = 0 \/ ~schemaMatch.found THEN issues
    ELSE ShiftIssues(issues, StartLine(document, schemaMatch))

convertJsonIssueLineNumbers(document, issues) ==
    ConvertWith(document, issues, MatchSchemaBlock(document.text, TRUE))

Count(line, a) == Cardinality({i \in 1..Len(line) : line[i] = a})

\* A match of /"key":\s*"([^"]+)"/ starts at i.
QuotedValueAt(line, key, i) ==
    /\ StartsWithAt(line, i, <<Q, key, Q, ":">>)
    /\ SkipWs(line, i + 4) + 2 <= Len(line)
    /\ line[SkipWs(line, i + 4)] = Q
    /\ line[SkipWs(line, i + 4) + 1] # Q
    /\ \E c \in (SkipWs(line, i + 4) + 2)..Len(line) : line[c] = Q

\* The captured group of the match whose value opens at o.
QuotedValueFrom(line, o) ==
    SubSeq(line, o + 1,
           (CHOOSE e \in (o + 2)..Len(line) :
               line[e] = Q /\ \A f \in (o + 2)..(e - 1) : line[f] # Q) - 1)

\* line.match(/"key":\s*"([^"]+)"/): the captured group, <<>> when no match.
QuotedValueOf(line, key) ==
    IF \A i \in 1..Len(line) : ~QuotedValueAt(line, key, i) THEN <<>>
    ELSE QuotedValueFrom(line,
            SkipWs(line, 4 + CHOOSE h \in 1..Len(line) :
                                /\ QuotedValueAt(line, key, h)
                                /\ \A g \in 1..(h - 1) : ~QuotedValueAt(line, key, g)))

ScanStart(map) ==
    [map |-> map, currentSection |-> "", settingIndex |-> 0, blockIndex |-> 0,
     presetIndex |-> 0, inSettingsArray |-> FALSE, inBlocksArray |-> FALSE,
     inPresetsArray |-> FALSE, braceDepth |-> 0]

\* braceDepth += count of '{' - count of '}'
DepthStep(st, line) ==
    [st EXCEPT !.braceDepth = st.braceDepth + Count(line, "{") - Count(line, "}")]

\* Track main sections
SectionStep(s, line, n) ==
    IF Includes(line, <<Q, "settings", Q>>)
    THEN [s EXCEPT !.map = MapSet(s.map, Key2("schema", <<"settings">>), n),
                   !.currentSection = "settings",
                   !.inSettingsArray = TRUE, !.settingIndex = 0]
    ELSE IF Includes(line, <<Q, "blocks", Q>>)
    THEN [s EXCEPT !.map = MapSet(s.map, Key2("schema", <<"blocks">>), n),
                   !.currentSection = "blocks",
                   !.inBlocksArray = TRUE, !.blockIndex = 0]
    ELSE IF Includes(line, <<Q, "presets", Q>>)
    THEN [s EXCEPT !.map = MapSet(s.map, Key2("schema", <<"presets">>), n),
                   !.currentSection = "presets",
                   !.inPresetsArray = TRUE, !.presetIndex = 0]
    ELSE s

\* Track when we exit arrays
LeaveStep(s, line) ==
    IF Includes(line, <<"]">>) /\ s.braceDepth = 1
    THEN IF s.inSettingsArray /\ s.currentSection = "settings"
         THEN [s EXCEPT !.inSettingsArray = FALSE]
         ELSE IF s.inBlocksArray /\ s.currentSection = "blocks"
         THEN [s EXCEPT !.inBlocksArray = FALSE]
         ELSE IF s.inPresetsArray /\ s.currentSection = "presets"
         THEN [s EXCEPT !.inPresetsArray = FALSE]
         ELSE s
    ELSE s

\* Track individual settings by position
SettingTypeStep(s, line, n) ==
    IF s.inSettingsArray /\ Includes(line, <<Q, "type", Q>>)
    THEN [s EXCEPT !.map = MapSet(s.map, IndexKey("setting", s.settingIndex), n),
                   !.settingIndex = s.settingIndex + 1]
    ELSE s

\* Track settings by ID
SettingIdStep(s, n, settingId) ==
    IF settingId # <<>> /\ s.inSettingsArray
    THEN [s EXCEPT !.map = MapSet(s.map, Key2("setting", settingId), n)]
    ELSE s

\* The keys a block's type line records: the positional one, and the special
\* one for @app and @theme.
BlockTypeKeys(map, blockIndex, n, blockType) ==
    IF blockType \in {<<"@", "app">>, <<"@", "theme">>}
    THEN MapSet(MapSet(map, IndexKey("block", blockIndex), n),
                Key2("block", blockType) \o <<":", IdxAtom(blockIndex)>>, n)
    ELSE MapSet(map, IndexKey("block", blockIndex), n)

\* Track individual blocks by position
BlockTypeStep(s, line, n, blockType) ==
    IF s.inBlocksArray /\ Includes(line, <<Q, "type", Q>>)
    THEN [s EXCEPT !.map = BlockTypeKeys(s.map, s.blockIndex, n, blockType),
                   !.blockIndex = s.blockIndex + 1]
    ELSE s

\* Track blocks by name
BlockNameStep(s, n, name) ==
    IF name # <<>> /\ s.inBlocksArray
    THEN [s EXCEPT !.map = MapSet(s.map, Key2("block", name), n)]
    ELSE s

\* Track individual presets by position
PresetStep(s, line, n, name) ==
    IF s.inPresetsArray /\ Includes(line, <<Q, "name", Q>>) /\ name # <<>>
    THEN [s EXCEPT !.map = MapSet(MapSet(s.map, Key2("preset", name), n),
                                  IndexKey("preset", s.presetIndex), n),
                   !.presetIndex = s.presetIndex + 1]
    ELSE s

\* Track section name, only in the first few lines and outside arrays
SectionNameStep(s, i, n, name) ==
    IF name # <<>> /\ i < 5 /\ ~s.inSettingsArray /\ ~s.inBlocksArray /\ ~s.inPresetsArray
    THEN [s EXCEPT !.map = MapSet(s.map, Key2("section", <<"name">>), n)]
    ELSE s

\* Track limits
LimitsStep(s, line, n) ==
    IF \/ Includes(line, <<Q, "min_blocks", Q>>)
       \/ Includes(line, <<Q, "max_blocks", Q>>)
       \/ Includes(line, <<Q, "limit", Q>>)
    THEN [s EXCEPT !.map = MapSet(s.map, Key2("schema", <<"limits">>), n)]
    ELSE s

\* The steps of an iteration that read the "name" match of the line.
NameSteps(s, line, i, n, name) ==
    SectionNameStep(PresetStep(BlockNameStep(s, n, name), line, n, name), i, n, name)

\* The steps of an iteration on the trimmed line, in the order of the loop body.
ScanTrimmed(st, line, i, n) ==
    LimitsStep(
        NameSteps(
            BlockTypeStep(
                SettingIdStep(
                    SettingTypeStep(
                        LeaveStep(SectionStep(DepthStep(st, line), line, n), line),
                        line, n),
                    n, QuotedValueOf(line, "id")),
                line, n, QuotedValueOf(line, "type")),
            line, i, n, QuotedValueOf(line, "name")),
        line, n)

\* One iteration of the for loop of buildSchemaLineMap: rawLine is lines[i],
\* i is the 0-based index and n the absoluteLineNumber.
ScanLine(st, rawLine, i, n) == ScanTrimmed(st, Trim(rawLine), i, n)

RECURSIVE ScanLoop(_, _, _, _), ScanNext(_, _, _, _)
ScanLoop(st, lines, i, startLine) ==
    IF i >= Len(lines) THEN st
    ELSE ScanNext(ScanLine(st, lines[i + 1], i, startLine + i + 1), lines, i, startLine)

\* The iteration is complete (its depth known) before the next begins.
ScanNext(after, lines, i, startLine) ==
    IF after.braceDepth = after.braceDepth
    THEN ScanLoop(after, lines, i + 1, startLine)
    ELSE after

BuildWith(document, map, schemaMatch) ==
    IF ~schemaMatch.found THEN map
    ELSE ScanLoop(ScanStart(map), Split(Trim(schemaMatch.inner)), 0,
                  StartLine(document, schemaMatch)).map

buildSchemaLineMap(document, map) ==
    BuildWith(document, map, MatchSchemaBlock(document.text, TRUE))

\* path.match(/root\[(\d+)\]/): the index, -1 when there is no match.
PathIndex(path, root) ==
    LET hits == {i \in 1..Len(path) :
                    /\ StartsWithAt(path, i, <<root, "[">>)
                    /\ i + 3 <= Len(path)
                    /\ path[i + 2] \in NumAtoms
                    /\ path[i + 3] = "]"}
    IN  IF hits = {} THEN 0 - 1
        ELSE NumOf(path[(CHOOSE h \in hits : \A g \in hits : h <= g) + 2])

\* path.includes(word), for the words the fallback looks for
PathIncludes(path, word) == \E i \in 1..Len(path) : path[i] = word

\* The loop of getApproximateSettingLine / getApproximatePresetLine: the first
\* of items[index], ..., items[0] whose field names a mapped key.
RECURSIVE BackwardScan(_, _, _, _, _)
BackwardScan(map, items, i, kind, field) ==
    IF i < 0 THEN 0
    ELSE LET item == IF i + 1 <= Len(items) THEN items[i + 1] ELSE Undefined
             v == Get(item, field)
             lineNumber == IF Truthy(v) THEN MapGet(map, Key2(kind, v.s)) ELSE 0
         IN  IF lineNumber # 0 THEN lineNumber
             ELSE BackwardScan(map, items, i - 1, kind, field)

\* The indexed entries of a collection: those of an array, none otherwise.
Indexed(v) == IF v.t = "arr" THEN v.a ELSE <<>>

getApproximateSettingLine(schema, map, index) ==
    LET settingsStart == MapGet(map, Key2("schema", <<"settings">>))
    IN  IF settingsStart = 0 \/ ~Truthy(Get(schema, "settings")) THEN 0
        ELSE LET found == BackwardScan(map, Indexed(Get(schema, "settings")), index, "setting", "id")
             IN  IF found # 0 THEN found ELSE settingsStart

getApproximateBlockLine(schema, map, index) ==
    LET blocksStart == MapGet(map, Key2("schema", <<"blocks">>))
    IN  IF blocksStart = 0 \/ ~Truthy(Get(schema, "blocks")) THEN 0
        ELSE blocksStart + (index + 1) * 4

getApproximatePresetLine(schema, map, index) ==
    LET presetsStart == MapGet(map, Key2("schema", <<"presets">>))
    IN  IF presetsStart = 0 \/ ~Truthy(Get(schema, "presets")) THEN 0
        ELSE LET found == BackwardScan(map, Indexed(Get(schema, "presets")), index, "preset", "name")
             IN  IF found # 0 THEN found ELSE presetsStart

\* collection[index]: undefined beyond the end of an array and for a value
\* that has no such property.
ItemAt(arr, index) ==
    IF arr.t = "arr" /\ index + 1 <= Len(arr.a) THEN arr.a[index + 1] ELSE Undefined

SectionFallback(path, map) ==
    IF PathIncludes(path, "settings") THEN MapGet(map, Key2("schema", <<"settings">>))
    ELSE IF PathIncludes(path, "blocks") THEN MapGet(map, Key2("schema", <<"blocks">>))
    ELSE IF PathIncludes(path, "presets") THEN MapGet(map, Key2("schema", <<"presets">>))
    ELSE 0

\* this.schemaLineMap.get(`kind:${item.field}`), 0 when the item has no such field
ByField(map, kind, item, field) ==
    IF Truthy(Get(item, field)) THEN MapGet(map, Key2(kind, Get(item, field).s)) ELSE 0

\* The settings branch with the two lookups in the other order: the key of the
\* setting's id first, then the positional key.
SettingLine_IdFirst(schema, map, index) ==
    IF ByField(map, "setting", ItemAt(Get(schema, "settings"), index), "id") # 0
    THEN ByField(map, "setting", ItemAt(Get(schema, "settings"), index), "id")
    ELSE IF MapGet(map, IndexKey("setting", index)) # 0
    THEN MapGet(map, IndexKey("setting", index))
    ELSE getApproximateSettingLine(schema, map, index)

\* The settings branch: the positional key first, then the key of the
\* setting's id, then the approximation.
SettingLine(schema, map, index) ==
    IF MapGet(map, IndexKey("setting", index)) # 0
    THEN MapGet(map, IndexKey("setting", index))
    ELSE IF ByField(map, "setting", ItemAt(Get(schema, "settings"), index), "id") # 0
    THEN ByField(map, "setting", ItemAt(Get(schema, "settings"), index), "id")
    ELSE getApproximateSettingLine(schema, map, index)

\* this.schemaLineMap.get(`block:${block.type}:${index}`)
SpecialBlockKey(block, index) ==
    Key2("block", Get(block, "type").s) \o <<":", IdxAtom(index)>>

\* The blocks branch once the positional key has missed, for the block at index.
BlockLineOf(schema, map, index, block) ==
    IF IsSpecialBlock(block)
    THEN (IF MapGet(map, SpecialBlockKey(block, index)) # 0
          THEN MapGet(map, SpecialBlockKey(block, index))
          ELSE getApproximateBlockLine(schema, map, index))
    ELSE IF ByField(map, "block", block, "name") # 0
    THEN ByField(map, "block", block, "name")
    ELSE getApproximateBlockLine(schema, map, index)

BlockLine(schema, map, index) ==
    IF MapGet(map, IndexKey("block", index)) # 0
    THEN MapGet(map, IndexKey("block", index))
    ELSE BlockLineOf(schema, map, index, ItemAt(Get(schema, "blocks"), index))

\* path.match(/presets\[\d+\]\.blocks\[(\d+)\]/)
IsPresetBlockPath(path) ==
    \E i \in 1..Len(path) :
        /\ StartsWithAt(path, i, <<"presets", "[">>)
        /\ i + 8 <= Len(path)
        /\ path[i + 2] \in NumAtoms
        /\ SubSeq(path, i + 3, i + 6) = <<"]", ".", "blocks", "[">>
        /\ path[i + 7] \in NumAtoms
        /\ path[i + 8] = "]"

\* The presets branch.
PresetLine(path, schema, map, presetIndex) ==
    IF IsPresetBlockPath(path) THEN getApproximatePresetLine(schema, map, presetIndex)
    ELSE IF MapGet(map, IndexKey("preset", presetIndex)) # 0
    THEN MapGet(map, IndexKey("preset", presetIndex))
    ELSE IF ByField(map, "preset", ItemAt(Get(schema, "presets"), presetIndex), "name") # 0
    THEN ByField(map, "preset", ItemAt(Get(schema, "presets"), presetIndex), "name")
    ELSE getApproximatePresetLine(schema, map, presetIndex)

\* The value getLineNumberFromValidationPath returns, 0 for undefined.
ResolvedLine(path, schema, map) ==
    IF path = <<>> \/ ~Truthy(schema) THEN 0
    ELSE IF StartsWith(path, <<"settings", "[">>)
    THEN (IF PathIndex(path, "settings") >= 0 /\ Truthy(Get(schema, "settings"))
          THEN SettingLine(schema, map, PathIndex(path, "settings"))
          ELSE SectionFallback(path, map))
    ELSE IF StartsWith(path, <<"blocks", "[">>)
    THEN (IF PathIndex(path, "blocks") >= 0 /\ Truthy(Get(schema, "blocks"))
          THEN BlockLine(schema, map, PathIndex(path, "blocks"))
          ELSE SectionFallback(path, map))
    ELSE IF StartsWith(path, <<"presets", "[">>)
    THEN (IF PathIndex(path, "presets") >= 0 /\ Truthy(Get(schema, "presets"))
          THEN PresetLine(path, schema, map, PathIndex(path, "presets"))
          ELSE SectionFallback(path, map))
    ELSE IF path = <<"limits">>
    THEN (IF MapGet(map, Key2("schema", <<"limits">>)) # 0
          THEN MapGet(map, Key2("schema", <<"limits">>))
          ELSE MapGet(map, Key2("schema", <<"settings">>)))
    ELSE SectionFallback(path, map)

\* getLineNumberFromValidationPath: the line (0 for undefined) and the line
\* map as the call leaves it; no statement of the method writes to the map.
getLineNumberFromValidationPath(path, schema, map) ==
    [line |-> ResolvedLine(path, schema, map), map |-> map]

\* The two forEach loops of getValidationItems: one tree item per finding, in
\* order, each with the line its path resolves to; the line map is threaded
\* through the calls.
RECURSIVE ItemsLoop(_, _, _, _, _), ItemsNext(_, _, _, _, _)
ItemsLoop(findings, i, schema, map, items) ==
    IF i > Len(findings) THEN [items |-> items, map |-> map]
    ELSE ItemsNext(findings, i, schema, items,
                   getLineNumberFromValidationPath(findings[i].path, schema, map))

\* The item of finding i with its resolved line r.line, then the rest.
ItemsNext(findings, i, schema, items, r) ==
    ItemsLoop(findings, i + 1, schema, r.map,
              Append(items, [finding |-> findings[i], lineNumber |-> r.line]))

getValidationItems(validation, schema, map) ==
    IF validation = Null THEN [items |-> <<>>, map |-> map]
    ELSE ItemsLoop(validation.errors \o validation.warnings, 1, schema, map, <<>>)

\* The tree items of the root level, each with its label (the counts and the
\* name a label is built from are kept as fields), its description where it
\* is one of the items below, its contextValue and its line (0 for undefined).
TreeItem(label, description, contextValue, line) ==
    [label |-> label, description |-> description, contextValue |-> contextValue, line |-> line]

JsonErrorItem(result) ==
    TreeItem([text |-> "JSON Parsing Error"], result.originalError, "json-error",
             IF Len(result.issues) > 0 THEN result.issues[1].line ELSE 0)

NoSchemaItem ==
    TreeItem([text |-> "No Schema Found"],
             [text |-> "No {% schema %} block found in this liquid file"], "warning", 0)

IsUnfixed(issue) == ~issue.fixed

\* The 'JSON: ...' item of getRootItems, when the parse left issues.
JsonIssuesItems(result) ==
    IF result = Null \/ Len(result.issues) = 0 THEN <<>>
    ELSE <<TreeItem([text |-> "JSON", unfixed |-> Len(SelectSeq(result.issues, IsUnfixed)),
                     fixed |-> Len(result.issues) - Len(SelectSeq(result.issues, IsUnfixed))],
                    [text |-> ""], "json-issues", 0)>>

\* The 'Validation: ...' item of getRootItems.
ValidationStatusItems(validation) ==
    IF validation = Null THEN <<>>
    ELSE IF Len(validation.errors) > 0 \/ Len(validation.warnings) > 0
    THEN <<TreeItem([text |-> "Validation", errors |-> Len(validation.errors),
                     warnings |-> Len(validation.warnings)],
                    [text |-> "Click to see validation details"], "validation", 0)>>
    ELSE <<TreeItem([text |-> "Validation: All good"], [text |-> "No validation errors or warnings"],
                    "validation-success", 0)>>

\* getRootItems; the last item carries the section's name, its description
\* (built from the statistics and the translations) is left out.
getRootItems(result, validation, schema) ==
    JsonIssuesItems(result) \o ValidationStatusItems(validation)
        \o <<TreeItem([text |-> "Section",
                       name |-> IF Truthy(Get(schema, "name")) THEN Get(schema, "name")
                                ELSE JStr(<<"Unnamed", SP, "Section">>)],
                      [text |-> ""], "section-info", 0)>>

\* getChildren() for the root level (no element).
getChildren(result, validation, schema) ==
    IF result # Null /\ ~Truthy(result.schema) /\ result.originalError # Null
    THEN <<JsonErrorItem(result)>>
    ELSE IF ~Truthy(schema) THEN <<NoSchemaItem>>
    ELSE getRootItems(result, validation, schema)

\* updateSchema(document): the provider's fields as the call leaves them.
\* An exception of parseDocument leaves updateSchema after the first two
\* statements, one of validateSchema before the assignment to
\* validationResult: the fields not listed keep what they held (thrown tells
\* that the call did not return).
UpdateWith(document, parsed) ==
    IF "thrown" \in DOMAIN parsed
    THEN [currentDocument |-> document, schemaLineMap |-> <<>>, thrown |-> parsed.thrown]
    ELSE IF Truthy(parsed.schema) /\ ValidateThrows(parsed.schema)
    THEN [currentDocument |-> document,
          parseResult |-> IF Len(parsed.issues) > 0
                          THEN [parsed EXCEPT !.issues =
                                    convertJsonIssueLineNumbers(document, parsed.issues)]
                          ELSE parsed,
          currentSchema |-> parsed.schema,
          schemaLineMap |-> buildSchemaLineMap(document, <<>>),
          thrown |-> ValidatorTypeError]
    ELSE [currentDocument |-> document,
          parseResult |-> IF Len(parsed.issues) > 0
                          THEN [parsed EXCEPT !.issues =
                                    convertJsonIssueLineNumbers(document, parsed.issues)]
                          ELSE parsed,
          currentSchema |-> parsed.schema,
          schemaLineMap |-> IF Truthy(parsed.schema)
                            THEN buildSchemaLineMap(document, <<>>) ELSE <<>>,
          validationResult |-> IF Truthy(parsed.schema)
                               THEN validateSchema(parsed.schema) ELSE Null,
          thrown |-> Null]

updateSchema(document) == UpdateWith(document, parseDocument(document))

(***************************************************************************)
(* The extension (extension.ts, src/unnamed/part_002) and the syntax check  *)
(* it publishes diagnostics from (schemaParser.ts).  An issue of the syntax *)
(* check is its message; the number after `Line` is kept in the field line, *)
(* which the messages about the balance do not have.                        *)
(***************************************************************************)
LineSyntaxIssue(n) ==
    [line |-> n, message |-> [text |-> "Trailing comma before closing bracket/brace"]]

BalanceIssue(what, count) ==
    [message |-> [text |-> what, closing |-> IF count > 0 THEN "missing" ELSE "extra"]]

\* The number of backslashes directly before position i.
BackslashRun(t, i) ==
    CHOOSE k \in 0..(i - 1) :
        /\ \A j \in (i - k)..(i - 1) : t[j] = BS
        /\ k = i - 1 \/ t[i - k - 1] # BS

\* escapeNext is set when the loop comes to position i: the character there is
\* passed over.
Escaped(t, i) == BackslashRun(t, i) % 2 = 1

\* The positions at which inString changes.
QuoteToggles(t) == {i \in 1..Len(t) : t[i] = Q /\ ~Escaped(t, i)}

\* The characters a that the loop counts: not passed over and outside strings.
Counted(t, toggles, a) ==
    Cardinality({i \in 1..Len(t) :
                    /\ t[i] = a
                    /\ ~Escaped(t, i)
                    /\ Cardinality({j \in toggles : j < i}) % 2 = 0})

BalanceOf(content, open, close) ==
    Counted(content, QuoteToggles(content), open) - Counted(content, QuoteToggles(content), close)

BalanceIssues(what, count) == IF count # 0 THEN <<BalanceIssue(what, count)>> ELSE <<>>

SyntaxLineHit(line) ==
    \/ EndsWith(Trim(line), <<",", "]">>)
    \/ EndsWith(Trim(line), <<",", "}">>)

SyntaxIssues(content, lines) ==
    Flatten([i \in 1..Len(lines) |->
                IF SyntaxLineHit(lines[i]) THEN <<LineSyntaxIssue(i)>> ELSE <<>>],
            1, Len(lines))
        \o BalanceIssues("braces", BalanceOf(content, "{", "}"))
        \o BalanceIssues("brackets", BalanceOf(content, "[", "]"))

validateJsonSyntax(content) ==
    [isValid |-> SyntaxIssues(content, Split(content)) = <<>>,
     issues |-> SyntaxIssues(content, Split(content))]

Diagnostic(line, message) ==
    [line |-> line, message |-> message, severity |-> "Error", source |-> "Shopify Schema"]

\* createPreciseJsonDiagnostic(document, error) for the one exception that
\* leaves parseDocument: findPreciseErrorLocation looks for 'Unexpected token'
\* in the message, which that of a TypeError does not hold, and returns null.
createPreciseJsonDiagnostic(document, error) ==
    IF error = TypeError THEN <<>> ELSE <<Diagnostic(0, error)>>

\* The forEach over the issues: one diagnostic for every issue that has a
\* line, on the line of the document that is so many lines below the one on
\* which the text after the opening marker starts.
IssueDiagnostics(document, schemaMatch, schemaLines, issues) ==
    Flatten([n \in 1..Len(issues) |->
                IF "line" \in DOMAIN issues[n] /\ issues[n].line - 1 < Len(schemaLines)
                THEN <<Diagnostic(LineOfOffset(document.text,
                                               SchemaStartIndex(document.text, schemaMatch))
                                      + issues[n].line - 1,
                                  issues[n].message)>>
                ELSE <<>>],
            1, Len(issues))

SyntaxDiagnostics(document, schemaMatch) ==
    IF ~schemaMatch.found THEN <<>>
    ELSE IF validateJsonSyntax(Trim(schemaMatch.inner)).isValid THEN <<>>
    ELSE IssueDiagnostics(document, schemaMatch, Split(Trim(schemaMatch.inner)),
                          validateJsonSyntax(Trim(schemaMatch.inner)).issues)

CaughtDiagnostics(document, parsed) ==
    IF "thrown" \in DOMAIN parsed THEN createPreciseJsonDiagnostic(document, parsed.thrown)
    ELSE <<>>

\* The array diagnostics of validateSchemaAndShowDiagnostics when it comes to
\* the last statement.
DiagnosticsOf(document) ==
    CaughtDiagnostics(document, parseDocument(document))
        \o SyntaxDiagnostics(document, MatchSchemaBlock(document.text, TRUE))

\* DiagnosticCollection.set(uri, diagnostics).  The collection is the function
\* from the file names the editor shows diagnostics for to those diagnostics:
\* an entry that is an empty array shows what no entry shows.
SetDiagnostics(collection, fileName, diagnostics) ==
    [f \in (DOMAIN collection \ {fileName})
             \cup (IF diagnostics = <<>> THEN {} ELSE {fileName}) |->
        IF f = fileName THEN diagnostics ELSE collection[f]]

\* DiagnosticCollection.get(uri)
GetDiagnostics(collection, fileName) ==
    IF fileName \in DOMAIN collection THEN collection[fileName] ELSE <<>>

\* validateSchemaAndShowDiagnostics(document): the collection as the call
\* leaves it, diagnostics being what the call has gathered.
ShowDiagnostics(collection, document, diagnostics) ==
    IF ~EndsWith(document.fileName, <<".", "liquid">>) THEN collection
    ELSE SetDiagnostics(collection, document.fileName, diagnostics)

validateSchemaAndShowDiagnostics(collection, document) ==
    ShowDiagnostics(collection, document, DiagnosticsOf(document))

(***************************************************************************)
(* The documents of the model.                                              *)
(***************************************************************************)
MaxGap == 2

Str(w) == <<Q, w, Q>>

KV(k, v) == Str(k) \o <<":", SP>> \o v

RECURSIVE Repeat(_, _)
Repeat(t, n) == IF n = 0 THEN <<>> ELSE t \o Repeat(t, n - 1)

TextSetting == <<"{">> \o KV("type", Str("text")) \o <<",", SP>> \o KV("id", Str("t"))
                  \o <<",", SP>> \o KV("label", Str("T")) \o <<"}">>

\* The end-to-end scenario: a comma before `]` and one at the line end before `}`.
BodyE2E ==
    Join(<< <<"{">>,
            <<SP, SP>> \o KV("name", Str("Test")) \o <<",">>,
            <<SP, SP>> \o KV("settings", <<"[">> \o TextSetting \o <<",", "]", ",">>),
            <<"}">> >>)

BodyA == <<"{">> \o KV("name", Str("Test")) \o <<",", SP>>
            \o KV("settings", <<"[">> \o TextSetting \o <<"]">>) \o <<"}">>

BodyB ==
    Join(<< <<"{">>,
            KV("name", Str("Hero")) \o <<",">>,
            KV("settings", <<"[">>),
            <<"{">>,
            KV("type", Str("text")) \o <<",">>,
            KV("id", Str("title")) \o <<",">>,
            KV("label", Str("Title")),
            <<"}", ",">>,
            <<"{">>,
            KV("type", Str("header")) \o <<",">>,
            KV("content", Str("T")),
            <<"}">>,
            <<"]", ",">>,
            KV("presets", <<"[">>),
            <<"{">>,
            KV("name", Str("Default")),
            <<>>,
            <<"}">>,
            <<SP, "]">>,
            <<"}">> >>)

BodyC ==
    Join(<< <<"{">> \o KV("name", Str("Hero")) \o <<",", SP>> \o KV("settings", <<"[", "{">>),
            KV("type", Str("text")) \o <<",">>,
            KV("id", Str("title")),
            <<"}", "]", ",">>,
            KV("blocks", <<"[", "{">> \o KV("type", <<Q, "@", "app", Q>>) \o <<"}", ",", SP, "{">>
                  \o KV("type", Str("slide")) \o <<"}", "]">>),
            <<"}">> >>)

BodyD ==
    Join(<< <<"{">>,
            KV("name", Str("Hero")) \o <<",">>,
            KV("settings", <<"[", "{">> \o KV("type", Str("text")) \o <<",", SP>>
                  \o KV("id", Str("title")) \o <<",", SP>> \o KV("label", Str("Title"))
                  \o <<"}", "]">>),
            <<"}">> >>)

BodyE ==
    Join(<< <<"{">>,
            KV("settings", <<"[", "{">>),
            KV("id", Str("title")),
            <<"}", "]">>,
            <<"}">> >>)

ValidBodies == {BodyA, BodyB, BodyC, BodyD, BodyE}

\* Valid JSON whose top-level members are absent or falsy, or that is no object.
OddBodies ==
    { <<"{", "}">>,
      <<"{">> \o KV("name", <<Q, Q>>) \o <<",", SP>> \o KV("settings", <<"null">>)
          \o <<",", SP>> \o KV("blocks", <<"[", "]">>) \o <<"}">>,
      <<"{">> \o KV("name", <<"null">>) \o <<",", SP>> \o KV("presets", <<"false">>) \o <<"}">>,
      <<"null">>,
      <<"5">>,
      <<"[", "]">> }

\* Every text made from t by writing one comma after a value that is directly
\* followed (after white space only) by a closing bracket or brace.
TrailingCommaTexts(t) ==
    { SubSeq(t, 1, TrimEndIdx(t, c - 1)) \o <<",">> \o SubSeq(t, TrimEndIdx(t, c - 1) + 1, Len(t)) :
        c \in {i \in 2..Len(t) : /\ t[i] \in {"]", "}"}
                                 /\ TrimEndIdx(t, i - 1) >= 1
                                 /\ t[TrimEndIdx(t, i - 1)] \notin {"[", "{", ","}} }

TrailingCommaBodies == UNION {TrailingCommaTexts(t) : t \in ValidBodies}

BrokenBodies ==
    { <<>>,
      <<"{">> \o KV("name", <<"}">>),
      Join(<< <<"{">>, KV("name", Str("Test")), KV("settings", <<"[", "]">>), <<"}">> >>),
      Join(<< <<"{">>, KV("a", <<"[", "1", ",">>), <<"]", ",">>,
              KV("b", <<"[", "2", ",", "]">>), <<"}">> >>),
      Join(<< <<"{">>, KV("name", Str("Test")), <<"oops">>, <<"}">> >>) }

Bodies == ValidBodies \cup OddBodies \cup TrailingCommaBodies \cup BrokenBodies \cup {BodyE2E}

Marker(kw, left, right) ==
    <<"{", "%">> \o (IF left THEN <<"-">> ELSE <<>>) \o <<SP, kw, SP>>
        \o (IF right THEN <<"-">> ELSE <<>>) \o <<"%", "}">>

Preamble(n) == Repeat(<<"div", NL>>, n)

SectionFile == <<"/", "theme", "/", "sections", "/", "hero", ".", "liquid">>

FileNames ==
    { SectionFile,
      <<"/", "theme", "/", "blocks", "/", "slide", ".", "liquid">>,
      <<"C", ":", BS, "theme", BS, "blocks", BS, "slide", ".", "liquid">>,
      <<"hero", ".", "liquid">> }

Doc(pre, open, gap, body, close, file) ==
    [text |-> Preamble(pre) \o open \o Repeat(<<NL>>, gap) \o body \o <<NL>> \o close \o <<NL>>,
     fileName |-> file]

PlainOpen == Marker("schema", FALSE, FALSE)

PlainClose == Marker("endschema", FALSE, FALSE)

\* Every body, with the schema text on the marker's line, on the next line or
\* after blank lines.
PlacedDocs ==
    {Doc(1, PlainOpen, gap, body, PlainClose, SectionFile) : gap \in 0..MaxGap, body \in Bodies}

\* Trim-control hyphens on any subset of the four positions, in either case.
MarkerDocs ==
    {Doc(1, Marker(kw[1], h[1], h[2]), 1, BodyA, Marker(kw[2], h[3], h[4]), SectionFile) :
        h \in [1..4 -> BOOLEAN],
        kw \in {<<"schema", "endschema">>, <<"SCHEMA", "ENDSCHEMA">>}}

\* No block at all, an opening marker alone, and two blocks of which only the
\* first has hyphens.
OtherDocs ==
    { [text |-> Preamble(2), fileName |-> SectionFile],
      [text |-> Preamble(1) \o PlainOpen \o <<NL>> \o BodyA \o <<NL>>, fileName |-> SectionFile],
      [text |-> Marker("schema", TRUE, TRUE) \o <<NL>> \o BodyD \o <<NL>>
                  \o Marker("endschema", TRUE, TRUE) \o <<NL>>
                  \o PlainOpen \o <<NL>> \o BodyA \o <<NL>> \o PlainClose \o <<NL>>,
       fileName |-> SectionFile] }

\* A style sheet: a file whose name does not end in .liquid.
StyleSheet == <<"/", "theme", "/", "assets", "/", "theme", ".", "css">>

StyleDocs == { [text |-> Preamble(2), fileName |-> StyleSheet] }

\* Schemas below a twelve-line template, so that their third line is line 15.
DeepDocs == {Doc(12, PlainOpen, 0, body, PlainClose, SectionFile) : body \in {BodyC, BodyD, BodyE}}

\* Paths to slide.liquid through no, one or two directories, from no root
\* with either separator, from the root of the file system and from that of
\* a drive.
Directories ==
    { <<>>, <<"blocks">>, <<"sections">>, <<"sub">>, <<"Blocks">>,
      <<"blocks", "sub">>, <<"sub", "blocks">>, <<"sections", "sub">>,
      <<"sections", "blocks">>, <<"blocks", "sections">> }

PathForms == { [root |-> <<>>, sep |-> "/"], [root |-> <<>>, sep |-> BS],
               [root |-> <<"/">>, sep |-> "/"], [root |-> <<"C", ":", BS>>, sep |-> BS] }

RECURSIVE PathOf(_, _, _)
PathOf(dirs, sep, n) ==
    IF n > Len(dirs) THEN <<"slide", ".", "liquid">>
    ELSE <<dirs[n], sep>> \o PathOf(dirs, sep, n + 1)

PathNames ==
    { form.root \o PathOf(dirs, form.sep, 1) : form \in PathForms, dirs \in Directories }
        \cup {<<"/", "theme", "/", "my", "-", "blocks", "/", "slide", ".", "liquid">>}

FileDocs == {Doc(0, PlainOpen, 1, BodyA, PlainClose, f) : f \in FileNames \cup PathNames}

\* Schemas written with one property per line.  Three blocks, the second a
\* reserved one and the third without a name.
BodyBlocksPlain ==
    Join(<< <<"{">>,
            KV("name", Str("Hero")) \o <<",">>,
            KV("blocks", <<"[">>),
            <<"{">>,
            KV("type", Str("slide")) \o <<",">>,
            KV("name", Str("Slide")),
            <<"}", ",">>,
            <<"{">>,
            KV("type", <<Q, "@", "app", Q>>),
            <<"}", ",">>,
            <<"{">>,
            KV("type", Str("quote")),
            <<"}">>,
            <<"]">>,
            <<"}">> >>)

\* A block with a setting of its own, followed by a block without a name.
BodyBlocksNested ==
    Join(<< <<"{">>,
            KV("name", Str("Hero")) \o <<",">>,
            KV("blocks", <<"[">>),
            <<"{">>,
            KV("type", Str("slide")) \o <<",">>,
            KV("name", Str("Slide")) \o <<",">>,
            KV("settings", <<"[">>),
            <<"{">>,
            KV("type", Str("text")) \o <<",">>,
            KV("id", Str("title")) \o <<",">>,
            KV("label", Str("Title")),
            <<"}">>,
            <<"]">>,
            <<"}", ",">>,
            <<"{">>,
            KV("type", Str("quote")),
            <<"}">>,
            <<"]">>,
            <<"}">> >>)

\* Two blocks, the second without a name, and a preset that lists blocks.
BodyPresetBlocks ==
    Join(<< <<"{">>,
            KV("name", Str("Hero")) \o <<",">>,
            KV("blocks", <<"[">>),
            <<"{">>,
            KV("type", Str("slide")) \o <<",">>,
            KV("name", Str("Slide")),
            <<"}", ",">>,
            <<"{">>,
            KV("type", Str("quote")),
            <<"}">>,
            <<"]", ",">>,
            KV("presets", <<"[">>),
            <<"{">>,
            KV("name", Str("Default")) \o <<",">>,
            KV("blocks", <<"[">>),
            <<"{">>,
            KV("type", Str("slide")),
            <<"}", ",">>,
            <<"{">>,
            KV("type", Str("nonexistent")),
            <<"}">>,
            <<"]">>,
            <<"}">>,
            <<"]">>,
            <<"}">> >>)

\* Two presets: one of them has no name, the other is called Second.
BodyPresetNames(namelessFirst) ==
    Join(<< <<"{">>,
            KV("name", Str("Hero")) \o <<",">>,
            KV("presets", <<"[">>),
            <<"{">>,
            IF namelessFirst THEN KV("category", Str("Image")) ELSE KV("name", Str("Second")),
            <<"}", ",">>,
            <<"{">>,
            IF namelessFirst THEN KV("name", Str("Second")) ELSE KV("category", Str("Image")),
            <<"}">>,
            <<"]">>,
            <<"}">> >>)

\* JSON text of a text setting with the given id, and of a list of values.
IdSetting(id) ==
    <<"{">> \o KV("type", Str("text")) \o <<",", SP>> \o KV("id", Str(id))
        \o <<",", SP>> \o KV("label", Str("L")) \o <<"}">>

RECURSIVE Commas(_)
Commas(items) ==
    IF Len(items) = 0 THEN <<>>
    ELSE IF Len(items) = 1 THEN items[1]
    ELSE items[1] \o <<",", SP>> \o Commas(Tail(items))

List(items) == <<"[">> \o Commas(items) \o <<"]">>

Object(members) == <<"{">> \o Commas(members) \o <<"}">>

\* A block of the given type with a name and settings of its own.
NamedBlock(type, name, settings) ==
    Object(<<KV("type", Str(type)), KV("name", Str(name)), KV("settings", List(settings))>>)

\* Settings that share an id: twice at the top level (next to each other or
\* not), and twice inside one block while the top level and another block
\* use the id once.
DuplicateIdBodies ==
    { Object(<<KV("name", Str("Hero")),
               KV("settings", List(<<IdSetting("t"), IdSetting("t")>>))>>),
      Object(<<KV("name", Str("Hero")),
               KV("settings", List(<<IdSetting("t"), IdSetting("u"), IdSetting("t")>>))>>),
      Object(<<KV("name", Str("Hero")),
               KV("settings", List(<<IdSetting("t")>>)),
               KV("blocks", List(<<
                   NamedBlock("slide", "Slide", <<IdSetting("u"), IdSetting("t"), IdSetting("t")>>),
                   NamedBlock("quote", "Quote", <<IdSetting("t"), IdSetting("u")>>)>>))>>) }

\* Reserved blocks: without a name, with a name, and with settings that
\* would not pass validation (no type, the same id twice).
BareSetting(id) == Object(<<KV("id", Str(id))>>)

ReservedBlockBodies ==
    { Object(<<KV("name", Str("Hero")),
               KV("blocks", List(<<
                   Object(<<KV("type", <<Q, "@", "app", Q>>)>>),
                   Object(<<KV("type", <<Q, "@", "theme", Q>>), KV("name", Str("Theme"))>>),
                   Object(<<KV("type", <<Q, "@", "app", Q>>),
                            KV("settings", List(<<BareSetting("t"), BareSetting("t")>>))>>)>>))>>),
      Object(<<KV("name", Str("Hero")),
               KV("blocks", List(<<
                   Object(<<KV("type", <<Q, "@", "theme", Q>>),
                            KV("settings", List(<<BareSetting("t")>>))>>),
                   NamedBlock("slide", "Slide", <<IdSetting("t")>>)>>))>>) }

\* A preset that lists the block types slide and nonexistent, in a schema
\* whose blocks are the given ones.
PresetBlocksBody(blocks) ==
    Object(<<KV("name", Str("Hero")),
             KV("blocks", List(blocks)),
             KV("presets", List(<<
                 Object(<<KV("name", Str("First"))>>),
                 Object(<<KV("name", Str("Default")),
                          KV("blocks", List(<<Object(<<KV("type", Str("slide"))>>),
                                              Object(<<KV("type", Str("nonexistent"))>>)>>))>>)>>))>>)

ReservedBlock(word) == Object(<<KV("type", <<Q, "@", word, Q>>)>>)

\* With a reserved block, and the same schema without it.
PresetBodies ==
    { PresetBlocksBody(<<ReservedBlock("theme"), NamedBlock("slide", "Slide", <<>>)>>),
      PresetBlocksBody(<<NamedBlock("slide", "Slide", <<>>), ReservedBlock("app")>>),
      PresetBlocksBody(<<NamedBlock("slide", "Slide", <<>>)>>),
      PresetBlocksBody(<<ReservedBlock("theme")>>),
      PresetBlocksBody(<<>>) }

\* A range setting, well-formed apart from the bounds and the step it is
\* given: "" leaves the property out.
Bound(key, digits) == IF digits = "" THEN <<>> ELSE <<KV(key, <<digits>>)>>

RangeSetting(min, max, step) ==
    Object(<<KV("type", Str("range")), KV("id", Str("r")), KV("label", Str("R"))>>
               \o Bound("min", min) \o Bound("max", max) \o Bound("step", step))

RangeBodies ==
    { Object(<<KV("name", Str("Hero")),
               KV("settings", List(<<RangeSetting(min, max, step)>>))>>) :
        min \in {"", "5", "10"}, max \in {"", "5", "10"}, step \in {"", "0", "1"} }

\* Schemas that parse and that validateSchema cannot walk: settings that
\* are an object, a name that is a number, a block that is null.
UnwalkableBodies ==
    { Object(<<KV("name", Str("Hero")), KV("settings", <<"{", "}">>)>>),
      Object(<<KV("name", <<"5">>)>>),
      Object(<<KV("name", Str("Hero")), KV("blocks", <<"[", "null", "]">>)>>) }

\* An informational setting of the given type, with a content or without.
Informational(type, content) ==
    Object(<<KV("type", Str(type))>>
               \o (IF content = "" THEN <<>> ELSE <<KV("content", Str(content))>>))

\* A header with its content, a header and a paragraph without, and a
\* setting that has no type.
InformationalBodies ==
    { Object(<<KV("name", Str("Hero")),
               KV("settings", List(<<Informational("header", "Welcome")>>))>>),
      Object(<<KV("name", Str("Hero")),
               KV("settings", List(<<Informational("header", "")>>))>>),
      Object(<<KV("name", Str("Hero")),
               KV("settings", List(<<IdSetting("t"), Informational("paragraph", "")>>))>>),
      Object(<<KV("name", Str("Hero")),
               KV("settings", List(<<BareSetting("t")>>))>>) }

ValidatorBodies ==
    UnwalkableBodies \cup DuplicateIdBodies \cup ReservedBlockBodies \cup PresetBodies
        \cup RangeBodies \cup InformationalBodies

\* The schemas that exercise the validator, each on the line after the marker.
ValidatorDocs == {Doc(0, PlainOpen, 1, body, PlainClose, SectionFile) : body \in ValidatorBodies}

\* A section with a setting of its own and, further down, a block that has
\* one too.
BodySettingsThenBlocks ==
    Join(<< <<"{">>,
            KV("name", Str("Hero")) \o <<",">>,
            KV("settings", <<"[">>),
            <<"{">>,
            KV("type", Str("text")) \o <<",">>,
            KV("id", Str("title")) \o <<",">>,
            KV("label", Str("Title")),
            <<"}">>,
            <<"]", ",">>,
            KV("blocks", <<"[">>),
            <<"{">>,
            KV("type", Str("slide")) \o <<",">>,
            KV("name", Str("Slide")) \o <<",">>,
            KV("settings", <<"[">>),
            <<"{">>,
            KV("type", Str("url")) \o <<",">>,
            KV("id", Str("link")) \o <<",">>,
            KV("label", Str("Link")),
            <<"}">>,
            <<"]">>,
            <<"}">>,
            <<"]">>,
            <<"}">> >>)

\* A block with a setting of its own, and a preset after the blocks.
BodyNestedThenPresets ==
    Join(<< <<"{">>,
            KV("name", Str("Hero")) \o <<",">>,
            KV("blocks", <<"[">>),
            <<"{">>,
            KV("type", Str("slide")) \o <<",">>,
            KV("name", Str("Slide")) \o <<",">>,
            KV("settings", <<"[">>),
            <<"{">>,
            KV("type", Str("url")) \o <<",">>,
            KV("id", Str("link")) \o <<",">>,
            KV("label", Str("Link")),
            <<"}">>,
            <<"]">>,
            <<"}">>,
            <<"]", ",">>,
            KV("presets", <<"[">>),
            <<"{">>,
            KV("name", Str("Default")),
            <<"}">>,
            <<"]">>,
            <<"}">> >>)

\* A block whose one setting has no label, above a top-level setting that is
\* complete.
BodyNestedDefect ==
    Join(<< <<"{">>,
            KV("name", Str("Hero")) \o <<",">>,
            KV("blocks", <<"[">>),
            <<"{">>,
            KV("type", Str("slide")) \o <<",">>,
            KV("name", Str("Slide")) \o <<",">>,
            KV("settings", <<"[">>),
            <<"{">>,
            KV("type", Str("url")) \o <<",">>,
            KV("id", Str("link")),
            <<"}">>,
            <<"]">>,
            <<"}">>,
            <<"]", ",">>,
            KV("settings", <<"[">>),
            <<"{">>,
            KV("type", Str("text")) \o <<",">>,
            KV("id", Str("title")) \o <<",">>,
            KV("label", Str("Title")),
            <<"}">>,
            <<"]">>,
            <<"}">> >>)

\* Two presets of the same name, the first of which lists a block of a type
\* that the section does not have.
BodyPresetTwins ==
    Join(<< <<"{">>,
            KV("name", Str("Hero")) \o <<",">>,
            KV("blocks", <<"[">>),
            <<"{">>,
            KV("type", Str("slide")) \o <<",">>,
            KV("name", Str("Slide")),
            <<"}">>,
            <<"]", ",">>,
            KV("presets", <<"[">>),
            <<"{">>,
            KV("name", Str("Default")) \o <<",">>,
            KV("blocks", <<"[">>),
            <<"{">>,
            KV("type", Str("nonexistent")),
            <<"}">>,
            <<"]">>,
            <<"}", ",">>,
            <<"{">>,
            KV("name", Str("Default")),
            <<"}">>,
            <<"]">>,
            <<"}">> >>)

PerLineBodies ==
    {BodyBlocksPlain, BodyBlocksNested, BodyPresetBlocks,
     BodyPresetNames(TRUE), BodyPresetNames(FALSE), BodySettingsThenBlocks,
     BodyNestedThenPresets, BodyPresetTwins, BodyNestedDefect}

\* The per-line schemas, beginning on the marker's line.
PerLineDocs == {Doc(1, PlainOpen, 0, body, PlainClose, SectionFile) : body \in PerLineBodies}

\* Blocks that are not valid JSON as they stand: a label with quotation marks
\* inside it, written plainly, with a Liquid expression beside it, and escaped
\* in a block that has a trailing comma.
QuotedLabel(inner) ==
    <<Q, "label", Q, ":", SP, Q, "Say", SP>> \o inner \o <<SP, "now", Q>>

QuoteBodies ==
    { Join(<< <<"{">>, KV("name", Str("Hero")) \o <<",">>, QuotedLabel(<<Q, "hi", Q>>), <<"}">> >>),
      Join(<< <<"{">>, KV("name", Str("Hero")) \o <<",">>,
              QuotedLabel(<<Q, "{", "{", "hi", "}", "}", Q>>), <<"}">> >>),
      Join(<< <<"{">>, KV("name", Str("Hero")) \o <<",">>,
              QuotedLabel(<<BS, Q, "hi", BS, Q>>) \o <<",">>, <<"}">> >>) }

\* Blocks with members that no comma separates: beside a trailing comma, twice
\* (once before white space at the end of the line), and none beside a
\* trailing comma that a blank line follows.
CommaBodies ==
    { Join(<< <<"{">>, KV("name", Str("Hero")), KV("settings", <<"[", "]", ",">>), <<"}">> >>),
      Join(<< <<"{">>, KV("a", Str("x")) \o <<SP>>, KV("b", <<"[">>), <<"1">>, <<"]">>,
              KV("name", Str("Hero")), <<"}">> >>),
      Join(<< <<"{">>, KV("name", Str("Hero")) \o <<",">>, <<>>, <<"}">> >>) }

RepairBodies == QuoteBodies \cup CommaBodies

\* The blocks that exercise the repairs, each on the line after the marker.
RepairDocs == {Doc(0, PlainOpen, 1, body, PlainClose, SectionFile) : body \in RepairBodies}

Documents ==
    PlacedDocs \cup MarkerDocs \cup OtherDocs \cup DeepDocs \cup FileDocs \cup PerLineDocs
        \cup ValidatorDocs \cup RepairDocs \cup StyleDocs

\* What updateSchema leaves, and what validateSchemaAndShowDiagnostics
\* gathers, for each document of the model.
UpdateTable ==
    [d \in Documents |-> [fields |-> updateSchema(d), diagnostics |-> DiagnosticsOf(d)]]

\* A table, every entry of it computed before any step reads from it.
Computed(table) == IF \A d \in DOMAIN table : table[d] = table[d] THEN table ELSE <<>>

Updated == Computed(UpdateTable)

(***************************************************************************)
(* The provider and the diagnostics of the extension as a state machine.    *)
(***************************************************************************)
\* The provider's fields, the items the view shows at its root and under
\* Validation, the exception the last updateSchema let escape (Null when it
\* returned), and the diagnostic collection of the extension.  Of the
\* extension besides: the message it showed last ("" before the first), the
\* document whose update the timer of the change listener holds (Null when
\* no timer is pending), and the files that have changed since their last
\* update.
VARIABLES currentDocument, parseResult, currentSchema, validationResult,
          schemaLineMap, rootItems, validationItems, thrown, schemaDiagnostics,
          shownMessage, changeTimeout, unrefreshed

vars == <<currentDocument, parseResult, currentSchema, validationResult,
          schemaLineMap, rootItems, validationItems, thrown, schemaDiagnostics,
          shownMessage, changeTimeout, unrefreshed>>

provider == <<currentDocument, parseResult, currentSchema, validationResult,
              schemaLineMap, rootItems, validationItems, thrown>>

Init ==
    /\ currentDocument = Null
    /\ parseResult = Null
    /\ currentSchema = Null
    /\ validationResult = Null
    /\ schemaLineMap = <<>>
    /\ rootItems = <<>>
    /\ validationItems = <<>>
    /\ thrown = Null
    /\ schemaDiagnostics = <<>>
    /\ shownMessage = ""
    /\ changeTimeout = Null
    /\ unrefreshed = {}

Install(u) ==
    /\ currentDocument' = u.currentDocument
    /\ schemaLineMap' = u.schemaLineMap
    /\ thrown' = u.thrown
    /\ parseResult' = IF "parseResult" \in DOMAIN u THEN u.parseResult ELSE parseResult
    /\ currentSchema' = IF "currentSchema" \in DOMAIN u THEN u.currentSchema ELSE currentSchema
    /\ validationResult' = IF "validationResult" \in DOMAIN u THEN u.validationResult
                           ELSE validationResult
    /\ rootItems' = IF u.thrown = Null THEN <<>> ELSE rootItems
    /\ validationItems' = IF u.thrown = Null THEN <<>> ELSE validationItems

\* The statement after updateSchema or refresh in a listener or command:
\* validateSchemaAndShowDiagnostics(document), which an exception of the
\* statement before it keeps from running.
ThenShow(u, diagnostics) ==
    schemaDiagnostics' = IF u.thrown = Null
                         THEN ShowDiagnostics(schemaDiagnostics, u.currentDocument, diagnostics)
                         ELSE schemaDiagnostics

\* updateSchema(document) or refresh(), then, where the handler has it,
\* validateSchemaAndShowDiagnostics(document); entry is what the two leave.
Handle(entry, show) ==
    /\ Install(entry.fields)
    /\ IF show THEN ThenShow(entry.fields, entry.diagnostics) ELSE UNCHANGED schemaDiagnostics

\* The editor, change and save listeners, for a document whose name ends in
\* .liquid: updateSchema(document), whose change event makes the view drop
\* the items it shows, then validateSchemaAndShowDiagnostics(document).
UpdateSchema(d, entry) ==
    /\ EndsWith(d.fileName, <<".", "liquid">>)
    /\ Handle(entry, TRUE)
    /\ UNCHANGED <<shownMessage, changeTimeout, unrefreshed>>

\* refresh(), from the watcher of the locales.
Refresh(d, entry) ==
    /\ currentDocument = d
    /\ Handle(entry, FALSE)
    /\ UNCHANGED <<shownMessage, changeTimeout, unrefreshed>>

\* The refreshTree command, the document of the active editor being the one
\* loaded: refresh(), then validateSchemaAndShowDiagnostics(document).
RefreshTree(d, entry) ==
    /\ currentDocument = d
    /\ Handle(entry, TRUE)
    /\ UNCHANGED <<shownMessage, changeTimeout, unrefreshed>>

PleaseOpen == "Please open a .liquid file to validate schema"

NoSchemaFound == "No schema found in the current file"

Completed == "Schema validation completed. Check the Shopify Schema panel for details."

\* The validateSchema command without an active editor.
ValidateSchemaNoEditor ==
    /\ shownMessage' = PleaseOpen
    /\ UNCHANGED <<provider, schemaDiagnostics, changeTimeout, unrefreshed>>

\* if (!schema) of the command, schema being what parseDocument returned.
NoSchema(schema) == schema = Null

\* The validateSchema command, the active editor showing the document d,
\* which, when it is a .liquid file, is the one the view has loaded; entry
\* is what refresh() leaves.
ValidateSchemaCommand(d, entry) ==
    IF ~EndsWith(d.fileName, <<".", "liquid">>)
    THEN /\ shownMessage' = PleaseOpen
         /\ UNCHANGED <<provider, schemaDiagnostics, changeTimeout, unrefreshed>>
    ELSE /\ currentDocument = d
         /\ IF NoSchema(parseDocument(d))
            THEN /\ shownMessage' = NoSchemaFound
                 /\ UNCHANGED <<provider, schemaDiagnostics>>
            ELSE /\ Handle(entry, FALSE)
                 /\ shownMessage' = Completed
         /\ UNCHANGED <<changeTimeout, unrefreshed>>

\* The handlers that call updateSchema, for the document d.
Load(d, entry) ==
    \/ UpdateSchema(d, entry)
    \/ Refresh(d, entry)
    \/ RefreshTree(d, entry)
    \/ ValidateSchemaCommand(d, entry)

\* The view asks for the children of the Validation node.
GetValidationItems ==
    LET r == getValidationItems(validationResult, currentSchema, schemaLineMap)
    IN  /\ validationItems' = r.items
        /\ schemaLineMap' = r.map
        /\ UNCHANGED <<currentDocument, parseResult, currentSchema, validationResult,
                       rootItems, thrown, schemaDiagnostics,
                       shownMessage, changeTimeout, unrefreshed>>

\* The view asks for the items of its root level.
GetChildren ==
    /\ rootItems' = getChildren(parseResult, validationResult, currentSchema)
    /\ UNCHANGED <<currentDocument, parseResult, currentSchema, validationResult,
                   schemaLineMap, validationItems, thrown, schemaDiagnostics,
                   shownMessage, changeTimeout, unrefreshed>>

Next ==
    \/ \E d \in Documents : Load(d, Updated[d])
    \/ ValidateSchemaNoEditor
    \/ GetValidationItems
    \/ GetChildren

Spec == Init /\ [][Next]_vars

(***************************************************************************)
(* The change listener with its timer (extension.ts 301-312), for a few     *)
(* open documents: three .liquid files, one of them with and without its    *)
(* schema block, and a style sheet.                                         *)
(***************************************************************************)
DebounceFiles ==
    {SectionFile, <<"/", "theme", "/", "blocks", "/", "slide", ".", "liquid">>,
     <<"hero", ".", "liquid">>}

DebounceDocs ==
    {Doc(0, PlainOpen, 1, BodyA, PlainClose, f) : f \in DebounceFiles}
        \cup {[text |-> Preamble(2), fileName |-> SectionFile]}
        \cup StyleDocs

\* onDidChangeTextDocument for the document d, whose text is the text after
\* the change: clearTimeout(changeTimeout), then setTimeout with a callback
\* that holds event.document.  Nothing else can change the text of d before
\* the callback runs without replacing the timer.
ChangeText(d) ==
    /\ IF EndsWith(d.fileName, <<".", "liquid">>)
       THEN /\ changeTimeout' = d
            /\ unrefreshed' = unrefreshed \cup {d.fileName}
       ELSE UNCHANGED <<changeTimeout, unrefreshed>>
    /\ UNCHANGED <<provider, schemaDiagnostics, shownMessage>>

\* The callback of the timer, 500 ms after the last change:
\* updateSchema(event.document), validateSchemaAndShowDiagnostics(event.document).
ChangeTimeout(d, entry) ==
    /\ changeTimeout = d
    /\ Handle(entry, TRUE)
    /\ changeTimeout' = Null
    /\ unrefreshed' = unrefreshed \ {d.fileName}
    /\ UNCHANGED shownMessage

Debounce(d, entry) == ChangeText(d) \/ ChangeTimeout(d, entry)

DebounceNext ==
    \/ \E d \in DebounceDocs : Debounce(d, Updated[d])
    \/ GetValidationItems
    \/ GetChildren

DebounceSpec == Init /\ [][DebounceNext]_vars

(***************************************************************************)
(* What the properties below speak about: the block text the parser was     *)
(* given, and where its lines really are in the document.                   *)
(***************************************************************************)
NoBlockMessage == [text |-> "No schema block found"]

\* No exception has left parseDocument in the last updateSchema.
ParseReturned == thrown \in {Null, ValidatorTypeError}

\* The document has been through updateSchema and the call returned.
Loaded == currentDocument # Null /\ thrown = Null /\ parseResult # Null

\* The document holds a block that parseDocument's expression matches.
HasBlock(d) == MatchSchemaBlock(d.text, FALSE).found

\* The block text parseDocument hands to parseJsonWithRecovery.
BlockText(d) == Trim(MatchSchemaBlock(d.text, FALSE).inner)

\* The 1-based document line that holds position pos of the text.
DocLineOf(text, pos) == 1 + Cardinality({j \in 1..(pos - 1) : text[j] = NL})

\* The 1-based document line on which the trimmed text of match m begins.
FirstContentLine(d, m) == DocLineOf(d.text, SkipWs(d.text, SchemaStartIndex(d.text, m) + 1))

\* The line map the scan of the document gives when every key is recorded with
\* the document line its schema-text line really is on.
TrueLineMap(d) ==
    ScanLoop(ScanStart(<<>>), Split(Trim(MatchSchemaBlock(d.text, TRUE).inner)), 0,
             FirstContentLine(d, MatchSchemaBlock(d.text, TRUE)) - 1).map

\* Both the strict parse and the parse of the repaired text fail.
BothParsesFail(content) ==
    /\ ~ParseAndClean(content).ok
    /\ ~ParseAndClean(Repaired(content).content).ok

IsFixedTrailingComma(issue) == issue.type = "trailing-comma" /\ issue.fixed

(***************************************************************************)
(* C1.  No exception leaves parseJsonWithRecovery or parseDocument: every   *)
(* call returns a ParseResult, and when the strict parse and the parse of   *)
(* the repaired text both fail, the result has a null schema, a non-null    *)
(* error message and an issue list whose last entry has type 'other' and    *)
(* fixed = false.                                                           *)
(***************************************************************************)
C1_NeverThrows ==
    /\ ParseReturned
    /\ currentDocument # Null =>
          /\ DOMAIN parseResult = {"schema", "issues", "originalError"}
          /\ (HasBlock(currentDocument) /\ BothParsesFail(BlockText(currentDocument))) =>
                /\ parseResult.schema = Null
                /\ parseResult.originalError # Null
                /\ Len(parseResult.issues) > 0
                /\ parseResult.issues[Len(parseResult.issues)].type = "other"
                /\ parseResult.issues[Len(parseResult.issues)].fixed = FALSE

\* C1 witness: a block that fails both parses has been parsed, and the last
\* issue of the result is the unfixed 'other' one.
C1_Witness ==
    /\ Loaded
    /\ HasBlock(currentDocument)
    /\ BothParsesFail(BlockText(currentDocument))
    /\ parseResult.schema = Null
    /\ parseResult.issues[Len(parseResult.issues)].type = "other"

(***************************************************************************)
(* C2.  End to end: the block with one comma directly before `]` and one at *)
(* the line end before `}` gives one auto-fixed trailing-comma issue, a     *)
(* schema named 'Test' with exactly one setting, of id 't', and no          *)
(* validation error.                                                        *)
(***************************************************************************)
C2_EndToEnd ==
    (currentDocument # Null /\ HasBlock(currentDocument)
        /\ BlockText(currentDocument) = Trim(BodyE2E)) =>
       /\ ParseReturned
       /\ Cardinality({n \in 1..Len(parseResult.issues) :
                          IsFixedTrailingComma(parseResult.issues[n])}) = 1
       /\ Truthy(currentSchema)
       /\ Get(currentSchema, "name") = JStr(<<"Test">>)
       /\ Len(Get(currentSchema, "settings").a) = 1
       /\ Get(Get(currentSchema, "settings").a[1], "id") = JStr(<<"t">>)
       /\ validationResult # Null
       /\ Len(validationResult.errors) = 0

(***************************************************************************)
(* C3.  For a block text that is valid JSON the parser returns no issue and *)
(* no error, and a schema equal to the parsed input except that an absent   *)
(* or empty name is 'Unnamed Section' and absent settings, blocks and       *)
(* presets are empty lists.                                                 *)
(***************************************************************************)
\* The parsed input with the defaults as the claim words them.
DefaultedAsClaimed(v) ==
    LET named == IF Get(v, "name") \in {Undefined, JStr(<<>>)}
                 THEN Put(v, "name", JStr(<<"Unnamed", SP, "Section">>)) ELSE v
        listed(w, key) == IF Get(w, key) = Undefined THEN Put(w, key, JArr(<<>>)) ELSE w
    IN  listed(listed(listed(named, "settings"), "blocks"), "presets")

\* The schema without the three properties parseDocument adds to it.
WithoutMetadata(schema) ==
    [schema EXCEPT !.o = [key \in DOMAIN schema.o \ {<<"_filePath">>, <<"_fileType">>, <<"_jsonIssues">>}
                            |-> schema.o[key]],
                   !.k = SelectSeq(schema.k,
                                   LAMBDA key : key \notin {<<"_filePath">>, <<"_fileType">>,
                                                            <<"_jsonIssues">>})]

C3_ValidJson ==
    (currentDocument # Null /\ HasBlock(currentDocument)
        /\ JSONparse(BlockText(currentDocument)).ok) =>
       /\ ParseReturned
       /\ parseResult.issues = <<>>
       /\ parseResult.originalError = Null
       /\ Truthy(currentSchema)
       /\ \A key \in {"settings", "blocks", "presets"} : Get(currentSchema, key) # Undefined
       /\ WithoutMetadata(currentSchema)
            = DefaultedAsClaimed(JSONparse(BlockText(currentDocument)).v)

(***************************************************************************)
(* C4.  Round trip under repair: a block text that is valid JSON but for    *)
(* one trailing comma before a closing bracket or brace, on the same line   *)
(* or a following one, gets a trailing-comma issue with fixed = true and    *)
(* the schema that the text without that comma gets.                        *)
(***************************************************************************)
C4_RoundTrip ==
    \A gap \in 0..MaxGap, t \in ValidBodies :
        \A b \in TrailingCommaTexts(t) :
            currentDocument = Doc(1, PlainOpen, gap, b, PlainClose, SectionFile) =>
               /\ ParseReturned
               /\ \E n \in 1..Len(parseResult.issues) :
                      IsFixedTrailingComma(parseResult.issues[n])
               /\ Truthy(currentSchema)
               /\ currentSchema
                    = Updated[Doc(1, PlainOpen, gap, t, PlainClose, SectionFile)].fields.currentSchema

(***************************************************************************)
(* C5.  Every result of parseDocument, also for a document without a        *)
(* schema block, is a non-null normalized schema with an issue list, or a   *)
(* null schema with a non-null error message and a non-empty issue list.    *)
(***************************************************************************)
Normalized(schema) ==
    /\ Truthy(schema)
    /\ Truthy(Get(schema, "name"))
    /\ \A key \in {"settings", "blocks", "presets"} : Truthy(Get(schema, key))

C5_TwoShapes ==
    currentDocument # Null =>
       /\ ParseReturned
       /\ \/ Normalized(parseResult.schema)
          \/ /\ parseResult.schema = Null
             /\ parseResult.originalError # Null
             /\ Len(parseResult.issues) > 0

(***************************************************************************)
(* C5 as amended.  Every result of parseDocument is a non-null normalized   *)
(* schema with an issue list, or a null schema with a non-null error        *)
(* message; with a null schema the issue list is empty exactly when the     *)
(* message is 'No schema block found', which is the answer exactly when     *)
(* parseDocument's expression matches no block.                             *)
(***************************************************************************)
C5_Shapes ==
    currentDocument # Null =>
       /\ ParseReturned
       /\ \/ Normalized(parseResult.schema)
          \/ /\ parseResult.schema = Null
             /\ parseResult.originalError # Null
             /\ (Len(parseResult.issues) = 0) <=> (parseResult.originalError = NoBlockMessage)
       /\ (parseResult.originalError = NoBlockMessage) <=> ~HasBlock(currentDocument)

\* C5 witness: a document without a schema block has been parsed: null
\* schema, the message, and no issue.
C5_Witness ==
    /\ Loaded
    /\ ~HasBlock(currentDocument)
    /\ parseResult.schema = Null
    /\ parseResult.originalError = NoBlockMessage
    /\ parseResult.issues = <<>>

(***************************************************************************)
(* C6.  When the strict parse and the parse of the repaired text both fail, *)
(* originalError is the message of the first, strict parse of the block     *)
(* text as it was.                                                          *)
(***************************************************************************)
C6_FirstMessage ==
    (Loaded /\ HasBlock(currentDocument) /\ BothParsesFail(BlockText(currentDocument))) =>
       parseResult.originalError = ParseAndClean(BlockText(currentDocument)).message

(***************************************************************************)
(* C7.  A block whose markers carry trim-control hyphens, on any of the     *)
(* four positions and in any letter case, is found by parseDocument: the    *)
(* answer is never 'No schema block found', and the block is the one the    *)
(* line-map builder selects.                                                *)
(***************************************************************************)
C7_HyphenMarkers ==
    (currentDocument # Null /\ MatchSchemaBlock(currentDocument.text, TRUE).found) =>
       /\ ParseReturned
       /\ parseResult.originalError # NoBlockMessage
       /\ HasBlock(currentDocument)
       /\ MatchSchemaBlock(currentDocument.text, FALSE).inner
            = MatchSchemaBlock(currentDocument.text, TRUE).inner

(***************************************************************************)
(* C8.  Every value of the line map is the 1-based document line of the     *)
(* schema-text line on which its key was recorded, wherever the schema text *)
(* begins: on the marker's line, on the next line or after blank lines.     *)
(***************************************************************************)
C8_TrueLines ==
    currentDocument # Null =>
       \A key \in DOMAIN schemaLineMap :
          schemaLineMap[key] = TrueLineMap(currentDocument)[key]

(***************************************************************************)
(* C9.  After updateSchema every issue of the parse result carries the      *)
(* 1-based document line on which it was detected, wherever the schema text *)
(* begins, also after refresh, and that line is the one the line map        *)
(* records for the keys of the same schema-text line.                       *)
(***************************************************************************)
\* The document line of line n (1-based) of the block text that was parsed.
IssueDocLine(d, n) == FirstContentLine(d, MatchSchemaBlock(d.text, FALSE)) + n - 1

C9_IssueLines ==
    (Loaded /\ HasBlock(currentDocument)) =>
       \A n \in 1..Len(parseResult.issues) :
          /\ parseResult.issues[n].line
               = IssueDocLine(currentDocument, parseDocument(currentDocument).issues[n].line)
          /\ \A key \in DOMAIN schemaLineMap :
                TrueLineMap(currentDocument)[key] = parseResult.issues[n].line
                   => schemaLineMap[key] = parseResult.issues[n].line

(***************************************************************************)
(* C10.  Resolving `settings[0]` when the first setting has id 'title' and  *)
(* the line map has that id at line 15 returns 15, whatever else is         *)
(* resolved in the same batch, and resolving changes neither the line map   *)
(* nor the schema.                                                          *)
(***************************************************************************)
\* Item n of the view is for the path settings[0], the first setting's id is
\* 'title', and the line map has setting:title at line 15.
TitleCase(n) ==
    /\ validationItems[n].finding.path = IndexPath("settings", 0)
    /\ Truthy(currentSchema)
    /\ Get(ItemAt(Get(currentSchema, "settings"), 0), "id") = JStr(<<"title">>)
    /\ MapGet(schemaLineMap, Key2("setting", <<"title">>)) = 15

PositionalFirst ==
    \A n \in 1..Len(validationItems) :
        TitleCase(n) =>
            validationItems[n].lineNumber
                = IF MapGet(schemaLineMap, IndexKey("setting", 0)) # 0
                  THEN MapGet(schemaLineMap, IndexKey("setting", 0))
                  ELSE 15

Depth(t, p) ==
    Cardinality({j \in 1..(p - 1) : t[j] \in {"{", "["}})
        - Cardinality({j \in 1..(p - 1) : t[j] \in {"}", "]"}})

\* The position of the top-level member `key` of the schema, 0 when absent.
TopKey(t, key) ==
    IF \A p \in 1..Len(t) : ~(StartsWithAt(t, p, <<Q, key, Q, ":">>) /\ Depth(t, p) = 1)
    THEN 0
    ELSE CHOOSE p \in 1..Len(t) : StartsWithAt(t, p, <<Q, key, Q, ":">>) /\ Depth(t, p) = 1

\* The positions at which the entries of the array opened at position a begin.
Entries(t, a) ==
    {e \in (a + 1)..Len(t) :
        /\ t[e] = "{"
        /\ Depth(t, e) = 2
        /\ \A j \in (a + 1)..e : ~(t[j] = "]" /\ Depth(t, j) = 2)}

\* The position of the brace that closes the entry opened at position e.
EntryEnd(t, e) ==
    CHOOSE c \in (e + 1)..Len(t) :
        /\ t[c] = "}" /\ Depth(t, c) = 3
        /\ \A j \in (e + 1)..(c - 1) : ~(t[j] = "}" /\ Depth(t, j) = 3)

\* Line n is one of the lines of entry i (0-based) of the top-level array
\* member `key`.
InEntry(t, key, i, n) ==
    /\ TopKey(t, key) # 0
    /\ \E e \in Entries(t, SkipWs(t, TopKey(t, key) + 4)) :
          /\ Cardinality({f \in Entries(t, SkipWs(t, TopKey(t, key) + 4)) : f < e}) = i
          /\ DocLineOf(t, e) <= n
          /\ n <= DocLineOf(t, EntryEnd(t, e))

\* Item n of the view is for the path root[i].
ItemFor(n, root, i) == validationItems[n].finding.path = IndexPath(root, i)

(***************************************************************************)
(* C11.  In a schema written with one property per line, the line the view  *)
(* navigates to for a finding at `blocks[i]` is a line of the i-th entry of *)
(* the top-level blocks array, for every i, also when blocks have settings  *)
(* of their own or presets list blocks.                                     *)
(***************************************************************************)
C11_BlockEntryLine ==
    currentDocument \in PerLineDocs =>
        \A n \in 1..Len(validationItems) : \A i \in 0..5 :
            ItemFor(n, "blocks", i) =>
                InEntry(currentDocument.text, "blocks", i, validationItems[n].lineNumber)

(***************************************************************************)
(* C12.  The line the view navigates to for a finding at `presets[i]` is a  *)
(* line of the i-th preset or the line on which the presets section         *)
(* starts, never a line of another preset: 'Preset name is required' leads  *)
(* to the preset without a name, also when a later preset has one.          *)
(***************************************************************************)
C12_PresetEntryLine ==
    currentDocument \in PerLineDocs =>
        \A n \in 1..Len(validationItems) : \A i \in 0..5 :
            ItemFor(n, "presets", i) =>
                \/ InEntry(currentDocument.text, "presets", i, validationItems[n].lineNumber)
                \/ validationItems[n].lineNumber
                     = DocLineOf(currentDocument.text, TopKey(currentDocument.text, "presets"))


(***************************************************************************)
(* C13.  In a settings collection where an id occurs at most twice (on      *)
(* settings that are no header or paragraph), every id that occurs twice    *)
(* gives exactly one 'Duplicate setting ID' error, with the path of the     *)
(* second occurrence.  The top-level settings and the settings of each      *)
(* block are scopes of their own: an id used in two of them is not          *)
(* reported.                                                                *)
(***************************************************************************)
\* The settings collections of the schema: the top-level one, then the one
\* of every block that is no reserved block (<<>> for a block without).
SettingsOf(v) == IF Truthy(Get(v, "settings")) THEN Get(v, "settings").a ELSE <<>>

\* A block of one of the two reserved types.
IsReserved(block) ==
    Get(block, "type") = JStr(<<"@", "app">>) \/ Get(block, "type") = JStr(<<"@", "theme">>)

Collections(schema) ==
    <<SettingsOf(schema)>>
        \o [n \in 1..ArrLen(Get(schema, "blocks")) |->
                IF IsReserved(Get(schema, "blocks").a[n]) THEN <<>>
                ELSE SettingsOf(Get(schema, "blocks").a[n])]

\* Entry j of collection c carries an id, on a setting that is no header or
\* paragraph.
HasId(c, j) ==
    /\ Truthy(Get(c[j], "id"))
    /\ ~IsStr(Get(c[j], "type"), "header")
    /\ ~IsStr(Get(c[j], "type"), "paragraph")

SameId(c, i, j) == HasId(c, i) /\ HasId(c, j) /\ Get(c[i], "id") = Get(c[j], "id")

\* No id of the collection occurs more than twice.
PairsOnly(c) ==
    \A i, j, k \in 1..Len(c) : (i < j /\ j < k) => ~(SameId(c, i, j) /\ SameId(c, j, k))

\* The second occurrences: <<m, j>> when entry j of collection m repeats the
\* id of an earlier entry of the same collection.
SecondOccurrences(cs) ==
    {mj \in (1..Len(cs)) \X (1..5) :
        /\ mj[2] <= Len(cs[mj[1]])
        /\ \E i \in 1..(mj[2] - 1) : SameId(cs[mj[1]], i, mj[2])}

IsDuplicateError(e) == e.message = "Duplicate setting ID"

DuplicateErrors(errors) == {n \in 1..Len(errors) : IsDuplicateError(errors[n])}

\* Error e reports the second occurrence mj.
Reports(e, cs, mj) ==
    /\ IsDuplicateError(e)
    /\ e.arg = Get(cs[mj[1]][mj[2]], "id")
    /\ e.path = IndexPath("settings", mj[2] - 1)

DuplicatesAsClaimed(errors, cs) ==
    /\ Cardinality(DuplicateErrors(errors)) = Cardinality(SecondOccurrences(cs))
    /\ \A n \in DuplicateErrors(errors) : \E mj \in SecondOccurrences(cs) : Reports(errors[n], cs, mj)
    /\ \A mj \in SecondOccurrences(cs) : \E n \in DuplicateErrors(errors) : Reports(errors[n], cs, mj)

BlockAt(schema, b) == Get(schema, "blocks").a[b + 1]

\* The indices (0-based) of the reserved blocks of the schema.
ReservedBlocks(schema) ==
    {b \in 0..(ArrLen(Get(schema, "blocks")) - 1) : IsReserved(BlockAt(schema, b))}

\* The entries of the list of findings that carry the path root[b].
FindingsAt(findings, root, b) ==
    {n \in 1..Len(findings) : findings[n].path = IndexPath(root, b)}

\* Block b has a name, no settings, and a type no earlier block has.
NamedOnly(schema, b) ==
    /\ Truthy(Get(BlockAt(schema, b), "name"))
    /\ Get(BlockAt(schema, b), "settings") = Undefined
    /\ \A a \in 0..(b - 1) : Get(BlockAt(schema, a), "type") # Get(BlockAt(schema, b), "type")

\* The findings whose path names a setting by its index alone.
SettingFindings(findings) ==
    {n \in 1..Len(findings) : StartsWith(findings[n].path, <<"settings", "[">>)}

\* The number of findings validateSettings gives for collections m, m+1, ...
RECURSIVE FindingsFrom(_, _)
FindingsFrom(cs, m) ==
    IF m > Len(cs) THEN 0 ELSE Len(validateSettings(cs[m])) + FindingsFrom(cs, m + 1)

ReservedExempt(schema, errors, warnings) ==
    /\ \A b \in ReservedBlocks(schema) :
          /\ FindingsAt(errors, "blocks", b) = {}
          /\ NamedOnly(schema, b) => Cardinality(FindingsAt(warnings, "blocks", b)) = 1
    /\ Cardinality(SettingFindings(errors)) + Cardinality(SettingFindings(warnings))
          = FindingsFrom(Collections(schema), 1)

C14_ReservedBlocks ==
    (Loaded /\ validationResult # Null)
        => ReservedExempt(currentSchema, validationResult.errors, validationResult.warnings)

\* C14 witness: a schema with a reserved block without a name, one with a
\* name that got its one warning, and one with settings, none of which is
\* reported.
C14_Witness ==
    /\ Loaded /\ validationResult # Null
    /\ \E b \in ReservedBlocks(currentSchema) : ~Truthy(Get(BlockAt(currentSchema, b), "name"))
    /\ \E b \in ReservedBlocks(currentSchema) :
          /\ NamedOnly(currentSchema, b)
          /\ Cardinality(FindingsAt(validationResult.warnings, "blocks", b)) = 1
    /\ \E b \in ReservedBlocks(currentSchema) : ArrLen(Get(BlockAt(currentSchema, b), "settings")) > 1
    /\ SettingFindings(validationResult.errors) = {}


(***************************************************************************)
(* C15.  While the top-level blocks contain a block of type '@theme' or     *)
(* '@app', a preset's reference to a block type that no top-level block     *)
(* has gives no warning; in a schema without such a block every such        *)
(* reference gives exactly one 'unknown block type' warning, with the path  *)
(* presets[i].blocks[j].                                                    *)
(***************************************************************************)
PresetBlockPath(i, j) == IndexPath("presets", i) \o <<".">> \o IndexPath("blocks", j)

\* The block references of preset i (0-based), <<>> when it lists none.
ReferencesOf(schema, i) ==
    IF Truthy(Get(Get(schema, "presets").a[i + 1], "blocks"))
    THEN Get(Get(schema, "presets").a[i + 1], "blocks").a
    ELSE <<>>

\* Reference j of preset i names a type that no top-level block has.
IsUnknownReference(schema, i, j) ==
    \A b \in 0..(ArrLen(Get(schema, "blocks")) - 1) :
        Get(BlockAt(schema, b), "type") # Get(ReferencesOf(schema, i)[j + 1], "type")

IsUnknownTypeWarning(w) == w.message = "Preset block references unknown block type"

\* The unknown-type warnings at presets[i].blocks[j]
UnknownTypeWarnings(warnings, i, j) ==
    {n \in 1..Len(warnings) :
        IsUnknownTypeWarning(warnings[n]) /\ warnings[n].path = PresetBlockPath(i, j)}

Lenient(schema, warnings) ==
    /\ \A i \in 0..(ArrLen(Get(schema, "presets")) - 1) :
          \A j \in 0..(Len(ReferencesOf(schema, i)) - 1) :
              Cardinality(UnknownTypeWarnings(warnings, i, j))
                 = IF ReservedBlocks(schema) = {} /\ IsUnknownReference(schema, i, j)
                   THEN 1 ELSE 0
    /\ ReservedBlocks(schema) # {} => \A n \in 1..Len(warnings) : ~IsUnknownTypeWarning(warnings[n])

C15_PresetLeniency ==
    (Loaded /\ validationResult # Null) => Lenient(currentSchema, validationResult.warnings)

\* C15 witness: a schema with a reserved block whose preset lists a type no
\* block has, validated without a warning about it.
C15_Witness ==
    /\ Loaded /\ validationResult # Null
    /\ ReservedBlocks(currentSchema) # {}
    /\ \E i \in 0..(ArrLen(Get(currentSchema, "presets")) - 1) :
          \E j \in 0..(Len(ReferencesOf(currentSchema, i)) - 1) :
              /\ IsUnknownReference(currentSchema, i, j)
              /\ UnknownTypeWarnings(validationResult.warnings, i, j) = {}


(***************************************************************************)
(* C16.  A range setting that is well-formed apart from its bounds and its  *)
(* step gets exactly one error for its bounds when min >= max (10 and 5,    *)
(* say) and none when min < max (5 and 10); when a bound is missing the     *)
(* error is 'require both min and max' and not the one about the order;     *)
(* a step <= 0 gives one further error.                                     *)
(***************************************************************************)
\* The schema's settings are one range setting, with id and label.
OneRange(schema) ==
    /\ Len(SettingsOf(schema)) = 1
    /\ Get(SettingsOf(schema)[1], "type") = JStr(<<"range">>)
    /\ Truthy(Get(SettingsOf(schema)[1], "id"))
    /\ Truthy(Get(SettingsOf(schema)[1], "label"))

WithMessage(errors, msg) == {n \in 1..Len(errors) : errors[n].message = msg}

\* The number of errors (0 or 1) the claim expects under each message.
OrderErrors(min, max) ==
    IF min # Undefined /\ max # Undefined /\ min.n >= max.n THEN 1 ELSE 0

BoundErrors(min, max) == IF min = Undefined \/ max = Undefined THEN 1 ELSE 0

StepErrors(step) == IF step # Undefined /\ step.n <= 0 THEN 1 ELSE 0

RangeAsClaimed(errors, setting) ==
    /\ Cardinality(WithMessage(errors, "Range min value must be less than max value"))
          = OrderErrors(Get(setting, "min"), Get(setting, "max"))
    /\ Cardinality(WithMessage(errors, "Range settings require both min and max properties"))
          = BoundErrors(Get(setting, "min"), Get(setting, "max"))
    /\ Cardinality(WithMessage(errors, "Range step must be greater than 0"))
          = StepErrors(Get(setting, "step"))
    /\ Len(errors) = OrderErrors(Get(setting, "min"), Get(setting, "max"))
                       + BoundErrors(Get(setting, "min"), Get(setting, "max"))
                       + StepErrors(Get(setting, "step"))
    /\ \A n \in 1..Len(errors) : errors[n].path = IndexPath("settings", 0)

FindingsOf(schema, validation) ==
    ~ValidateThrows(schema) /\ validation = validateSchema(schema)

StateOf(d) ==
    /\ parseResult.schema = parseDocument(d).schema
    /\ parseResult.originalError = parseDocument(d).originalError
    /\ Len(parseResult.issues) = Len(parseDocument(d).issues)
    /\ currentSchema = parseResult.schema
    /\ validationResult # Null <=> currentSchema # Null
    /\ validationResult # Null => FindingsOf(currentSchema, validationResult)
    /\ IF currentSchema = Null THEN schemaLineMap = <<>>
       ELSE DOMAIN schemaLineMap \subseteq DOMAIN TrueLineMap(d)

C17_LastWins == currentDocument # Null => StateOf(currentDocument)


(***************************************************************************)
(* C18.  A document without a schema block is a state of its own and no     *)
(* error: once it is loaded, the root of the tree shows the 'No Schema      *)
(* Found' item and never the 'JSON Parsing Error' item, and no parse issue  *)
(* is reported for it.                                                      *)
(***************************************************************************)
C18_NoSchemaFound ==
    (Loaded /\ ~HasBlock(currentDocument)) =>
        /\ Len(parseResult.issues) = 0
        /\ rootItems # <<>> =>
              /\ rootItems = <<NoSchemaItem>>
              /\ \A n \in 1..Len(rootItems) : rootItems[n].contextValue # "json-error"


(***************************************************************************)
(* C19.  All schema errors appear as diagnostics: once the listeners have   *)
(* handled a .liquid document that has a schema block, the collection holds *)
(* at least one diagnostic for it when the block could not be parsed        *)
(* (parseDocument returned schema = null), and none when the block is valid *)
(* JSON as it stands.                                                       *)
(***************************************************************************)
\* What the collection holds for the document that is loaded.
Published == GetDiagnostics(schemaDiagnostics, currentDocument.fileName)

\* A .liquid document with a schema block has been through the listener.
Diagnosed ==
    /\ Loaded
    /\ EndsWith(currentDocument.fileName, <<".", "liquid">>)
    /\ HasBlock(currentDocument)

C19_ErrorsAsDiagnostics ==
    Diagnosed =>
        /\ parseResult.schema = Null => Len(Published) >= 1
        /\ JSONparse(BlockText(currentDocument)).ok => Published = <<>>


(***************************************************************************)
(* C20.  The category of a file is a function of its path alone: 'block'    *)
(* when some directory of the path is named exactly blocks, 'section'       *)
(* otherwise (a directory named sections, the parent directory and the      *)
(* default all give 'section' then); letter case counts, and the separator  *)
(* and the root the path starts from do not.                                *)
(***************************************************************************)
IsSeparator(a) == a \in {"/", BS}

\* Position i of the path holds the whole name of a directory.
IsDirectoryAt(p, i) ==
    /\ i < Len(p) /\ IsSeparator(p[i + 1])
    /\ ~IsSeparator(p[i])
    /\ i = 1 \/ IsSeparator(p[i - 1])

HasDirectory(p, name) == \E i \in 1..Len(p) : IsDirectoryAt(p, i) /\ p[i] = name

CategoryAsClaimed(p) == IF HasDirectory(p, "blocks") THEN "block" ELSE "section"

C20_FileCategory ==
    (Loaded /\ Truthy(currentSchema)) =>
        Get(currentSchema, "_fileType") = JStr(<<CategoryAsClaimed(currentDocument.fileName)>>)


(***************************************************************************)
(* C21.  One issue per repair: when the strict parse of a block fails, each *)
(* trailing-comma issue of fixTrailingCommas has fixed = true and stands    *)
(* for one comma taken from the line it names: the repaired text is the     *)
(* input less as many commas as there are such issues, and no issue names a *)
(* line that was left as it was.                                            *)
(***************************************************************************)
CommasIn(t) == Cardinality({i \in 1..Len(t) : t[i] = ","})

\* Line n of the repaired text is line n of the input less one comma.
OneCommaLess(before, after, n) ==
    /\ n \in 1..Len(before) /\ Len(after) = Len(before)
    /\ Len(after[n]) = Len(before[n]) - 1
    /\ CommasIn(after[n]) = CommasIn(before[n]) - 1

IssuePerRepair(content, r, found) ==
    /\ Len(SelectSeq(found, LAMBDA issue : issue.type = "trailing-comma")) = Len(r.issues)
    /\ \A n \in 1..Len(r.issues) : IsFixedTrailingComma(r.issues[n])
    /\ Len(r.content) = Len(content) - Len(r.issues)
    /\ CommasIn(r.content) = CommasIn(content) - Len(r.issues)
    /\ \A n \in 1..Len(r.issues) :
          OneCommaLess(Split(content), Split(r.content), r.issues[n].line)

C21_IssuePerRepair ==
    (Loaded /\ HasBlock(currentDocument) /\ ~JSONparse(BlockText(currentDocument)).ok) =>
        IssuePerRepair(BlockText(currentDocument),
                       fixTrailingCommas(BlockText(currentDocument), <<>>),
                       parseResult.issues)


(***************************************************************************)
(* C22.  Unescaped-quote detection: when the strict parse of a block fails, *)
(* the issues hold one entry of type unescaped-quote, with fixed = false,   *)
(* for every `"key": "value"` line whose value has a quotation mark inside  *)
(* it that is not escaped and has no {{ or }} marker, and the detection     *)
(* leaves the text as it was.                                               *)
(***************************************************************************)
\* The trimmed line without a final comma.
Member(line) ==
    IF EndsWith(Trim(line), <<",">>) THEN Trim(SubSeq(Trim(line), 1, Len(Trim(line)) - 1))
    ELSE Trim(line)

\* The position after `"key":` and white space in a member, 0 when the text
\* does not begin so.
ValueStart(m) ==
    IF Len(m) >= 5 /\ m[1] = Q /\ m[3] = Q /\ m[4] = ":" THEN SkipWs(m, 5) ELSE 0

\* The member is "key": "value" and, between the quotation marks at its two
\* ends, the value has one that no backslash stands before, and no marker.
HasEmbeddedQuote(m, o) ==
    /\ o > 0 /\ o < Len(m) /\ m[o] = Q /\ m[Len(m)] = Q
    /\ \E j \in (o + 1)..(Len(m) - 1) : m[j] = Q /\ m[j - 1] # BS
    /\ ~Includes(SubSeq(m, o + 1, Len(m) - 1), <<"{", "{">>)
    /\ ~Includes(SubSeq(m, o + 1, Len(m) - 1), <<"}", "}">>)

EmbeddedQuoteLines(lines) ==
    {n \in 1..Len(lines) : HasEmbeddedQuote(Member(lines[n]), ValueStart(Member(lines[n])))}

IsUnescapedQuote(issue) == issue.type = "unescaped-quote"

QuotesDetected(content, found) ==
    /\ Len(SelectSeq(found, IsUnescapedQuote)) = Cardinality(EmbeddedQuoteLines(Split(content)))
    /\ \A n \in 1..Len(found) : IsUnescapedQuote(found[n]) => ~found[n].fixed
    /\ fixUnescapedQuotes(content, <<>>).content = content

C22_UnescapedQuotes ==
    (Loaded /\ HasBlock(currentDocument) /\ ~JSONparse(BlockText(currentDocument)).ok) =>
        QuotesDetected(BlockText(currentDocument), parseResult.issues)


(***************************************************************************)
(* C23.  Missing-comma repair: when the strict parse of a block fails, then *)
(* for each pair of adjacent lines of which the first ends in }, ] or a     *)
(* quotation mark and the second begins with {, a quotation mark or a word  *)
(* character, fixMissingCommas appends one comma to the first line and      *)
(* records one missing-comma issue with fixed = true and that line's        *)
(* number; it changes no other line and not the number of lines, and it     *)
(* puts back no comma that the trailing-comma repair has taken away.        *)
(***************************************************************************)
LastOf(t) == IF t = <<>> THEN "" ELSE t[Len(t)]

FirstOf(t) == IF t = <<>> THEN "" ELSE t[1]

\* Lines n and n + 1 are a pair of the kind the claim speaks of.
PairAt(lines, n) ==
    /\ n < Len(lines)
    /\ LastOf(Trim(lines[n])) \in {"}", "]", Q}
    /\ \/ FirstOf(Trim(lines[n + 1])) \in {"{", Q}
       \/ Trim(lines[n + 1]) # <<>> /\ IsWord(FirstOf(Trim(lines[n + 1])))

\* The line with one comma after its last character that is not white space.
CommaAppended(before, after) ==
    /\ Len(after) = Len(before) + 1
    /\ Trim(after) = Trim(before) \o <<",">>
    /\ SubSeq(after, TrimEndIdx(after, Len(after)) + 1, Len(after))
         = SubSeq(before, TrimEndIdx(before, Len(before)) + 1, Len(before))

IsFixedMissingComma(issue) == issue.type = "missing-comma" /\ issue.fixed

LinesRepaired(before, after) ==
    /\ Len(after) = Len(before)
    /\ \A n \in 1..Len(before) :
          IF PairAt(before, n) THEN CommaAppended(before[n], after[n])
          ELSE after[n] = before[n]

IssuesRecorded(before, issues) ==
    /\ Len(issues) = Cardinality({n \in 1..Len(before) : PairAt(before, n)})
    /\ \A k \in 1..Len(issues) :
          IsFixedMissingComma(issues[k]) /\ PairAt(before, issues[k].line)
    /\ \A k, l \in 1..Len(issues) : issues[k].line = issues[l].line => k = l

\* No line that fixTrailingCommas took a comma from is given one.
NoneRestored(trailing, before) ==
    \A k \in 1..Len(trailing) : ~PairAt(before, trailing[k].line)

\* The result of the parse holds as many missing-comma issues as the repair
\* recorded.
IssuesKept(found, missing) ==
    Len(SelectSeq(found, LAMBDA issue : issue.type = "missing-comma")) = Len(missing)

MissingRepaired(a, m, found) ==
    /\ LinesRepaired(Split(a.content), Split(m.content))
    /\ IssuesRecorded(Split(a.content), m.issues)
    /\ NoneRestored(a.issues, Split(a.content))
    /\ IssuesKept(found, m.issues)

RepairsRun == Loaded /\ HasBlock(currentDocument) /\ ~JSONparse(BlockText(currentDocument)).ok

C23_MissingCommas ==
    RepairsRun =>
        MissingRepaired(fixTrailingCommas(BlockText(currentDocument), <<>>),
                        fixMissingCommas(fixTrailingCommas(BlockText(currentDocument), <<>>).content,
                                         <<>>),
                        parseResult.issues)

\* C23 witness: a block that parses after one comma was taken from the end
\* of a line and one was put at the end of another.
C23_Witness ==
    /\ RepairsRun /\ Truthy(currentSchema)
    /\ \E k, l \in 1..Len(parseResult.issues) :
          /\ IsFixedMissingComma(parseResult.issues[k])
          /\ IsFixedTrailingComma(parseResult.issues[l])


(***************************************************************************)
(* C24.  Positional keys are recorded once: after the scan of a schema      *)
(* written with one property per line, `setting:index:N` is the line of the *)
(* type field of the N-th setting of the section, also when blocks or       *)
(* presets further down have settings of their own; likewise               *)
(* `block:index:N` is the type line of the N-th block and `preset:index:N`  *)
(* the name line of the N-th preset.                                        *)
(***************************************************************************)
\* Document line n of the text holds the member `field`.
LineHolds(t, n, field) ==
    \E p \in 1..Len(t) : StartsWithAt(t, p, <<Q, field, Q, ":">>) /\ DocLineOf(t, p) = n

\* The positional key of entry i is absent or the line of `field` in entry i
\* of the top-level array `key`.
PositionalLine(t, map, kind, key, field, i) ==
    MapGet(map, IndexKey(kind, i)) # 0 =>
        /\ InEntry(t, key, i, MapGet(map, IndexKey(kind, i)))
        /\ LineHolds(t, MapGet(map, IndexKey(kind, i)), field)

C24_PositionalKeysOnce ==
    (Loaded /\ currentDocument \in PerLineDocs) =>
        \A i \in 0..5 :
            /\ PositionalLine(currentDocument.text, schemaLineMap, "setting", "settings", "type", i)
            /\ PositionalLine(currentDocument.text, schemaLineMap, "block", "blocks", "type", i)
            /\ PositionalLine(currentDocument.text, schemaLineMap, "preset", "presets", "name", i)


(***************************************************************************)
(* C25.  Section tracking in the scan of a schema written with one property *)
(* per line: after every line at most one of the settings, blocks and       *)
(* presets sections is active, a section is no longer active once the       *)
(* bracket that closes its top-level array has been read, and so every      *)
(* block key of the line map holds a line of the top-level blocks array,    *)
(* never a later one such as that of a preset's name.                       *)
(***************************************************************************)
\* The loop variables of buildSchemaLineMap after the first k lines of the
\* block of document d.
ScanAfter(d, k) ==
    ScanLoop(ScanStart(<<>>),
             SubSeq(Split(Trim(MatchSchemaBlock(d.text, TRUE).inner)), 1, k),
             0, StartLine(d, MatchSchemaBlock(d.text, TRUE)))

ActiveSections(st) ==
    {a \in {"settings", "blocks", "presets"} :
        \/ a = "settings" /\ st.inSettingsArray
        \/ a = "blocks" /\ st.inBlocksArray
        \/ a = "presets" /\ st.inPresetsArray}

\* The position of the bracket that closes the top-level array member `key`.
ArrayEnd(t, key) ==
    CHOOSE c \in TopKey(t, key)..Len(t) :
        /\ t[c] = "]" /\ Depth(t, c) = 2
        /\ \A j \in TopKey(t, key)..(c - 1) : ~(t[j] = "]" /\ Depth(t, j) = 2)

\* Document line n is one of the lines of the top-level array member `key`.
InArray(t, key, n) ==
    /\ TopKey(t, key) # 0
    /\ DocLineOf(t, TopKey(t, key)) <= n
    /\ n <= DocLineOf(t, ArrayEnd(t, key))

\* After a line past the end of the top-level array `key`, its section is
\* not active.
ClosedAfterEnd(d, key, k) ==
    (TopKey(d.text, key) # 0
        /\ StartLine(d, MatchSchemaBlock(d.text, TRUE)) + k > DocLineOf(d.text, ArrayEnd(d.text, key)))
      => key \notin ActiveSections(ScanAfter(d, k))

SectionsTracked(d, lines) ==
    \A k \in 0..Len(lines) :
        /\ Cardinality(ActiveSections(ScanAfter(d, k))) <= 1
        /\ \A key \in {"settings", "blocks", "presets"} : ClosedAfterEnd(d, key, k)

BlockKeysInBlocks(t, map) ==
    \A key \in DOMAIN map : key[1] = "block" => InArray(t, "blocks", map[key])

C25_SectionTracking ==
    (Loaded /\ currentDocument \in PerLineDocs) =>
        /\ SectionsTracked(currentDocument,
                           Split(Trim(MatchSchemaBlock(currentDocument.text, TRUE).inner)))
        /\ BlockKeysInBlocks(currentDocument.text, schemaLineMap)


(***************************************************************************)
(* C26.  A path into the block references of a preset resolves to the line  *)
(* of its preset: the line the view gives an item for                       *)
(* `presets[i].blocks[j]` is the line that `presets[i]` resolves to with    *)
(* the same schema and line map.                                            *)
(***************************************************************************)
C26_PresetBlockPath ==
    Loaded =>
        \A n \in 1..Len(validationItems) : \A i, j \in 0..2 :
            validationItems[n].finding.path = PresetBlockPath(i, j) =>
                validationItems[n].lineNumber
                    = ResolvedLine(IndexPath("presets", i), currentSchema, schemaLineMap)


(***************************************************************************)
(* C27.  A finding raised on a setting nested inside block b carries a path *)
(* that names block b, and the path resolves to a line of entry b of the    *)
(* blocks array: for every block of the loaded schema, every finding that   *)
(* validateSettings returns for the block's settings has a path beginning   *)
(* with `blocks[b]` and a resolved line inside that entry.                  *)
(***************************************************************************)
\* What validateBlocks adds for the settings of block b (0-based).
NestedFindings(schema, b) ==
    LET blocks == Get(schema, "blocks")
        block == ItemAt(blocks, b)
    IN  IF Truthy(blocks) /\ b < ArrLen(blocks) /\ Truthy(Get(block, "settings"))
           /\ ~IsSpecialBlock(block)
        THEN validateSettings(Get(block, "settings").a)
        ELSE NoFindings

PathNamesBlock(path, b) == StartsWith(path, IndexPath("blocks", b))

C27_NestedSettingPath ==
    (Loaded /\ currentDocument \in PerLineDocs /\ Truthy(currentSchema)) =>
        \A b \in 0..2 : \A k \in 1..Len(NestedFindings(currentSchema, b)) :
            /\ PathNamesBlock(NestedFindings(currentSchema, b)[k].path, b)
            /\ InEntry(currentDocument.text, "blocks", b,
                       ResolvedLine(NestedFindings(currentSchema, b)[k].path,
                                    currentSchema, schemaLineMap))


(***************************************************************************)
(* C29.  No defect of a setting is reported twice: in a schema whose         *)
(* findings all come from its top-level settings, validateSchema gives       *)
(* exactly one missing-content warning for each header or paragraph setting  *)
(* that has no content, and exactly one type-related error for each setting  *)
(* that has no type.                                                         *)
(***************************************************************************)
ContentMessages ==
    {"setting should have content property",
     "Header settings should have content property",
     "Paragraph settings should have content property"}

TypeMessages == {"Setting type is required", "Unknown setting type"}

\* How many of the findings at `path` carry one of the messages.
ReportsAt(findings, path, messages) ==
    Cardinality({n \in 1..Len(findings) :
                    findings[n].path = path /\ findings[n].message \in messages})

LacksContent(setting) ==
    /\ IsStr(Get(setting, "type"), "header") \/ IsStr(Get(setting, "type"), "paragraph")
    /\ ~Truthy(Get(setting, "content"))

ReportedOnce(result, setting, path) ==
    /\ LacksContent(setting) => ReportsAt(result.warnings, path, ContentMessages) = 1
    /\ ~Truthy(Get(setting, "type")) => ReportsAt(result.errors, path, TypeMessages) = 1

C29_NoDefectTwice ==
    (Loaded /\ Truthy(currentSchema) /\ validationResult # Null
        /\ \A b \in 0..2 : NestedFindings(currentSchema, b) = NoFindings) =>
        \A i \in 0..2 :
            i < ArrLen(Get(currentSchema, "settings")) =>
                ReportedOnce(validationResult,
                             ItemAt(Get(currentSchema, "settings"), i),
                             IndexPath("settings", i))


(***************************************************************************)
(* C30.  The validateSchema command reports a missing schema: a run of the  *)
(* command on a .liquid file shows 'No schema found in the current file'    *)
(* and leaves the provider as it was when the file has no schema block,     *)
(* and shows 'Schema validation completed...' only when the file has one.   *)
(* (A step that changes the message to something else than the request to  *)
(* open a .liquid file is a run of the command on the loaded document.)     *)
(***************************************************************************)
CommandRan == shownMessage' # shownMessage /\ shownMessage' # PleaseOpen

C30_MissingSchemaReported ==
    [][CommandRan =>
          IF HasBlock(currentDocument)
          THEN shownMessage' = Completed
          ELSE shownMessage' = NoSchemaFound /\ UNCHANGED provider]_vars


(***************************************************************************)
(* C28.  Debounced updates lose no document: every file that has changed    *)
(* and has not been updated since is the file whose update the timer holds, *)
(* so that a change of one document never cancels the pending update of     *)
(* another and, once no timer is pending, every changed document has been   *)
(* parsed again and had its diagnostics refreshed.                          *)
(***************************************************************************)
UpdatePending(f) == changeTimeout # Null /\ changeTimeout.fileName = f

C28_NoUpdateLost == \A f \in unrefreshed : UpdatePending(f)


=============================================================================
